---- MODULE Spec2Model ----
(***************************************************************************)
(* Silver layer of coreason_etl_epar: the SCD Type 2 history merge         *)
(* (transform_silver.apply_scd2) and the row hash it relies on.            *)
(*                                                                         *)
(* A DataFrame is a finite sequence of rows (records).  The accumulated    *)
(* history is kept in the state as a multiset of rows: apply_scd2 never    *)
(* reads a row position of the history, and polars leaves the row order of *)
(* unique() and of the joins unspecified.  The snapshot is a sequence,     *)
(* because unique(keep="first") depends on the input order.                *)
(*                                                                         *)
(* The first part follows the merge on frames with the fixed columns id,   *)
(* data (variables history, clock, inOrder).  The second part follows the  *)
(* same code on frames that carry their schema (column names, order and    *)
(* dtypes), together with clean_epar_bronze and the row hash over scalar   *)
(* and list columns (variables bronze, silver).  The third part follows    *)
(* enrich_epar, the downloader (variables files, pc) and the runs of the   *)
(* pipeline over the history file.                                         *)
(***************************************************************************)
EXTENDS Integers, Sequences, FiniteSets, Bags, TLC

VARIABLES history, clock, inOrder, bronze, silver, files, pc

vars == <<history, clock, inOrder, bronze, silver, files, pc>>

(* ------------------------------ bounds -------------------------------- *)

\* Largest ingestion timestamp drawn for a merge.
MaxTs == 2
\* Largest height of the history the exploration follows.
MaxHeight == 2

(* ------------------------------ values -------------------------------- *)

\* Business keys (schema.EPARSourceRow.product_number is a required str,
\* so a snapshot never carries a null key).
Keys == {"K1", "K2"}
\* Values of the hashed business column.
DataVals == {"A", "B"}
\* Ingestion timestamps.
Timestamps == 1..MaxTs
\* valid_to of an open row (None).
NullTs == 0
\* A null string cell (None), e.g. hist_row_hash of an unmatched left-join row.
NullStr == "<null>"

\* Variant of HashColumns: the column note is hashed as well.
HashColumnsWithNote == <<"data", "note">>

\* The columns named in hash_columns (pipeline.py hash_cols, one column here).
HashColumns == <<"data">>

SnapshotRows == [id : Keys, data : DataVals]

RECURSIVE SeqsUpTo(_, _)
SeqsUpTo(S, n) ==
    IF n = 0 THEN {<<>>}
    ELSE LET shorter == SeqsUpTo(S, n - 1)
         IN  shorter \cup {Append(s, x) : s \in {t \in shorter : Len(t) = n - 1}, x \in S}

\* The snapshots a merge may be given: up to as many rows as there are keys,
\* in any order, rows with the same key (equal or conflicting) included.
MaxSnapLen == Cardinality(Keys)
Snapshots == SeqsUpTo(SnapshotRows, MaxSnapLen)

\* pl.DataFrame(): the frame with no columns and no rows.
NoFrame == [schema |-> <<>>, rows |-> <<>>]

\* The paths fetch_sources writes: the two source files and their temporary
\* files (dest_path.suffix + ".tmp").
EparPath == "medicines_output_european_public_assessment_reports.xlsx"
SporPath == "organisations.zip"
TempPath(dest_path) == dest_path \o ".tmp"
Paths == {EparPath, SporPath, TempPath(EparPath), TempPath(SporPath)}

\* What a path holds: nothing, a directory, or a regular file with the
\* chunks written to it.
Absent == [kind |-> "absent", data |-> <<>>]
Directory == [kind |-> "dir", data |-> <<>>]
RegularFile(data) == [kind |-> "file", data |-> data]

\* The file system and the process where no download is modelled.
NoFiles == [p \in Paths |-> Absent]
Idle == [step |-> "idle", target |-> "", error |-> "", at |-> ""]

(* ------------------- frames of the history (multisets) ----------------- *)

\* df.height
Height(df) == BagCardinality(df)

\* df.filter(p), given the set of rows that satisfy p: each of them as often
\* as in df.
Filter(df, rows) == [r \in rows \cap DOMAIN df |-> df[r]]

RECURSIVE SumOver(_, _)
SumOver(df, rows) ==
    IF rows = {} THEN 0
    ELSE LET r == CHOOSE x \in rows : TRUE
         IN  df[r] + SumOver(df, rows \ {r})

\* df.with_columns(...) / df.select(...), given the new row f[r] of every row
\* r of df: every row replaced, copies added up.
MapRows(df, f) ==
    [n \in {f[r] : r \in DOMAIN df} |-> SumOver(df, {r \in DOMAIN df : f[r] = n})]

\* The rows of a sequence-shaped frame as a multiset.
RECURSIVE SeqToBag(_)
SeqToBag(s) ==
    IF s = <<>> THEN EmptyBag
    ELSE SetToBag({Head(s)}) (+) SeqToBag(Tail(s))

\* The set of values of the key column of a frame of the history.
KeySet(df) == {r.id : r \in DOMAIN df}

(* ------------------------------ row hash ------------------------------- *)

\* Variant of FillNull: a null is rendered as the literal "null".
FillNullLiteral(v) == IF v = NullStr THEN "null" ELSE v

\* pl.col(c).cast(pl.String).fill_null("")
FillNull(v) == IF v = NullStr THEN "" ELSE v

\* pl.concat_str(exprs, separator="|")
RECURSIVE ConcatStr(_)
ConcatStr(strs) ==
    IF strs = <<>> THEN ""
    ELSE IF Len(strs) = 1 THEN strs[1]
    ELSE strs[1] \o "|" \o ConcatStr(Tail(strs))

\* hashlib.md5(x.encode()).hexdigest(): a digest, taken to be collision free.
Md5(x) == "md5(" \o x \o ")"

\* generate_row_hash for one row: adds the row_hash column.
GenerateRowHash(row) ==
    [id |-> row.id, data |-> row.data,
     row_hash |-> Md5(ConcatStr([i \in 1..Len(HashColumns) |-> FillNull(row[HashColumns[i]])]))]

(* ------------------------------ apply_scd2 ----------------------------- *)

\* current_snapshot.unique(subset=[primary_key], keep="first")
RECURSIVE UniqueKeepFirst(_, _)
UniqueKeepFirst(df, seen) ==
    IF df = <<>> THEN <<>>
    ELSE IF Head(df).id \in seen THEN UniqueKeepFirst(Tail(df), seen)
    ELSE <<Head(df)>> \o UniqueKeepFirst(Tail(df), seen \cup {Head(df).id})

\* Variant of SnapshotUnique: unique(keep="last").
SnapshotUniqueKeepLast(current_snapshot) ==
    LET Rev(s) == [i \in 1..Len(s) |-> s[Len(s) + 1 - i]]
    IN  Rev(UniqueKeepFirst(Rev(current_snapshot), {}))

\* Variant of SnapshotUnique: the snapshot is used without deduplication.
SnapshotNotDeduplicated(current_snapshot) == current_snapshot

SnapshotUnique(current_snapshot) == UniqueKeepFirst(current_snapshot, {})

\* snapshot_hashed = generate_row_hash(snapshot_unique, hash_columns)
SnapshotHashed(current_snapshot) ==
    LET u == SnapshotUnique(current_snapshot)
    IN  [i \in 1..Len(u) |-> GenerateRowHash(u[i])]

\* A snapshot-derived row as a fresh current version, projected on the
\* history's columns: valid_from = ingestion_ts, valid_to = None,
\* is_current = True.
OpenVersion(row, ingestion_ts) ==
    [id |-> row.id, data |-> row.data,
     valid_from |-> ingestion_ts, valid_to |-> NullTs, is_current |-> TRUE,
     row_hash |-> row.row_hash]

\* Variant of Bootstrap: the rows of the first load are not stamped with the
\* ingestion timestamp.
BootstrapUnstamped(snapshot_hashed, ingestion_ts) ==
    SeqToBag([i \in 1..Len(snapshot_hashed) |->
                [OpenVersion(snapshot_hashed[i], ingestion_ts) EXCEPT !.valid_from = NullTs]])

\* The bootstrap branch (history.is_empty()).
Bootstrap(snapshot_hashed, ingestion_ts) ==
    SeqToBag([i \in 1..Len(snapshot_hashed) |-> OpenVersion(snapshot_hashed[i], ingestion_ts)])

\* Variant of IsCurrent: the is_current filter is missing, every history row
\* is treated as a current one.
IsCurrentUnfiltered(row) == TRUE

IsCurrent(row) == row.is_current
IsClosed(row) == ~row.is_current

\* Variant of CurrentHistory: the snapshot is matched against every history
\* row, closed ones included.
CurrentHistoryWhole(hist) == hist

\* current_history = history.filter(pl.col("is_current"))
CurrentHistory(hist) == Filter(hist, {r \in DOMAIN hist : IsCurrent(r)})
\* closed_history = history.filter(~pl.col("is_current"))
ClosedHistory(hist) == Filter(hist, {r \in DOMAIN hist : IsClosed(r)})

\* hist_renamed = current_history.select([pk, "row_hash"]).rename(...)
HistRenamed(current_history) ==
    MapRows(current_history,
            [r \in DOMAIN current_history |-> [id |-> r.id, hist_row_hash |-> r.row_hash]])

\* One snapshot row left-joined to hist_renamed on the key: one output row per
\* matching history row, or one row with a null hist_row_hash when none matches.
JoinRow(row, hist_renamed) ==
    LET matches == Filter(hist_renamed, {h \in DOMAIN hist_renamed : h.id = row.id})
        With(hash) == [id |-> row.id, data |-> row.data,
                       row_hash |-> row.row_hash, hist_row_hash |-> hash]
    IN  IF DOMAIN matches = {}
        THEN SetToBag({With(NullStr)})
        ELSE MapRows(matches, [h \in DOMAIN matches |-> With(h.hist_row_hash)])

\* joined = snapshot_hashed.join(hist_renamed, on=primary_key, how="left")
RECURSIVE Joined(_, _)
Joined(snapshot_hashed, hist_renamed) ==
    IF snapshot_hashed = <<>> THEN EmptyBag
    ELSE JoinRow(Head(snapshot_hashed), hist_renamed)
         (+) Joined(Tail(snapshot_hashed), hist_renamed)

\* new_records = joined.filter(pl.col("hist_row_hash").is_null())
NewRecords(joined) ==
    Filter(joined, {r \in DOMAIN joined : r.hist_row_hash = NullStr})

\* Variant of ChangedRecords: every matched key counts as changed, the hashes
\* are not compared.
ChangedRecordsAnyMatch(joined) ==
    Filter(joined, {r \in DOMAIN joined : r.hist_row_hash # NullStr})

\* Variant of ChangedRecords: no matched key counts as changed.
ChangedRecordsNone(joined) == EmptyBag

\* changed_records = joined.filter(hist_row_hash.is_not_null() & (row_hash != hist_row_hash))
ChangedRecords(joined) ==
    Filter(joined, {r \in DOMAIN joined :
                        r.hist_row_hash # NullStr /\ r.row_hash # r.hist_row_hash})

\* Variant of DeletedKeys: keys missing from the snapshot are not looked for.
DeletedKeysIgnored(current_history, snapshot_hashed) == {}

\* deleted_keys = current_history.select(pk).join(snapshot_hashed.select(pk), how="anti")
DeletedKeys(current_history, snapshot_hashed) ==
    KeySet(current_history) \ {snapshot_hashed[i].id : i \in 1..Len(snapshot_hashed)}

\* keys_to_close = pl.concat([changed_keys, deleted_keys]).unique()
KeysToClose(changed_records, current_history, snapshot_hashed) ==
    KeySet(changed_records) \cup DeletedKeys(current_history, snapshot_hashed)

\* history_to_close = current_history.join(keys_to_close, on=pk, how="inner")
HistoryToClose(current_history, keys_to_close) ==
    Filter(current_history, {r \in DOMAIN current_history : r.id \in keys_to_close})

\* history_to_keep = current_history.join(keys_to_close, on=pk, how="anti")
HistoryToKeep(current_history, keys_to_close) ==
    Filter(current_history, {r \in DOMAIN current_history : r.id \notin keys_to_close})

\* Variant of CloseRow: the closed row's valid_from is restamped as well.
CloseRowRestamped(row, ingestion_ts) ==
    [row EXCEPT !.valid_from = ingestion_ts, !.valid_to = ingestion_ts,
                !.is_current = FALSE]

\* Variant of CloseRow: valid_to is set but is_current stays true.
CloseRowStillCurrent(row, ingestion_ts) ==
    [row EXCEPT !.valid_to = ingestion_ts]

\* Variant of CloseRow: is_current is cleared but valid_to stays null.
CloseRowOpenEnded(row, ingestion_ts) ==
    [row EXCEPT !.is_current = FALSE]

\* One row of history_to_close with valid_to = ingestion_ts, is_current = False.
CloseRow(row, ingestion_ts) ==
    [row EXCEPT !.valid_to = ingestion_ts, !.is_current = FALSE]

\* Variant of ClosedUpdates: the old version is ended one tick before the
\* ingestion timestamp.
ClosedUpdatesTickBefore(history_to_close, ingestion_ts) ==
    MapRows(history_to_close,
            [r \in DOMAIN history_to_close |-> CloseRow(r, ingestion_ts - 1)])

\* closed_updates = history_to_close.with_columns(valid_to=..., is_current=False)
ClosedUpdates(history_to_close, ingestion_ts) ==
    MapRows(history_to_close,
            [r \in DOMAIN history_to_close |-> CloseRow(r, ingestion_ts)])

\* Variant of NewEntries: changed records are closed but not inserted again.
NewEntriesNewOnly(new_records, changed_records, ingestion_ts) ==
    MapRows(new_records, [r \in DOMAIN new_records |-> OpenVersion(r, ingestion_ts)])

\* new_entries = pl.concat([new_records, changed_records]).with_columns(...)
NewEntries(new_records, changed_records, ingestion_ts) ==
    LET both == new_records (+) changed_records
    IN  MapRows(both, [r \in DOMAIN both |-> OpenVersion(r, ingestion_ts)])

\* apply_scd2(current_snapshot, history, primary_key, ingestion_ts, hash_columns)
ApplyScd2(current_snapshot, hist, ingestion_ts) ==
    LET snapshot_hashed  == SnapshotHashed(current_snapshot)
        current_history  == CurrentHistory(hist)
        closed_history   == ClosedHistory(hist)
        joined           == Joined(snapshot_hashed, HistRenamed(current_history))
        new_records      == NewRecords(joined)
        changed_records  == ChangedRecords(joined)
        keys_to_close    == KeysToClose(changed_records, current_history, snapshot_hashed)
        history_to_close == HistoryToClose(current_history, keys_to_close)
        history_to_keep  == HistoryToKeep(current_history, keys_to_close)
        closed_updates   == ClosedUpdates(history_to_close, ingestion_ts)
        new_entries      == NewEntries(new_records, changed_records, ingestion_ts)
    IN  IF Height(hist) = 0
        THEN Bootstrap(snapshot_hashed, ingestion_ts)
        ELSE closed_history (+) history_to_keep (+) closed_updates (+) new_entries

(* ------------------------------ behaviour ------------------------------ *)

\* The history before the first run: no rows (pipeline.py:148).
Init ==
    /\ history = EmptyBag
    /\ clock = NullTs
    /\ inOrder = TRUE
    /\ files = NoFiles
    /\ pc = Idle
    /\ bronze = NoFrame
    /\ silver = NoFrame

\* One call of apply_scd2 with an arbitrary snapshot and an arbitrary
\* ingestion timestamp; the caller keeps the result as the new history.
Merge(snapshot, ts) ==
    LET result == ApplyScd2(snapshot, history, ts)
    IN  /\ Height(result) <= MaxHeight
        /\ history' = result
        /\ UNCHANGED <<clock, inOrder, bronze, silver, files, pc>>

\* The same call with the sequence of ingestion timestamps observed: clock is
\* the latest timestamp given so far, and inOrder holds as long as no merge
\* was given a timestamp earlier than one given before it (the pipeline takes
\* ingestion_ts = datetime.now() for each run).
Run(snapshot, ts) ==
    LET result == ApplyScd2(snapshot, history, ts)
    IN  /\ Height(result) <= MaxHeight
        /\ history' = result
        /\ clock' = IF ts > clock THEN ts ELSE clock
        /\ inOrder' = (inOrder /\ ts >= clock)
        /\ UNCHANGED <<bronze, silver, files, pc>>

Next == \E snapshot \in Snapshots, ts \in Timestamps : Merge(snapshot, ts)

Spec == Init /\ [][Next]_vars

NextRun == \E snapshot \in Snapshots, ts \in Timestamps : Run(snapshot, ts)

SpecRuns == Init /\ [][NextRun]_vars

\* Histories a caller passes to apply_scd2 that no merge has written: no row,
\* or one current row of a key whose row_hash is the hash of its data or null.
SuppliedHistories ==
    {EmptyBag}
    \cup {SetToBag({[id |-> k, data |-> d, valid_from |-> t, valid_to |-> NullTs,
                     is_current |-> TRUE,
                     row_hash |-> IF hashed
                                  THEN GenerateRowHash([id |-> k, data |-> d]).row_hash
                                  ELSE NullStr]}) :
            k \in Keys, d \in DataVals, t \in Timestamps, hashed \in BOOLEAN}

InitSupplied ==
    /\ history \in SuppliedHistories
    /\ clock = NullTs
    /\ inOrder = TRUE
    /\ files = NoFiles
    /\ pc = Idle
    /\ bronze = NoFrame
    /\ silver = NoFrame

\* The merges of Spec, from a history the caller supplies.
SpecSupplied == InitSupplied /\ [][Next]_vars

(* --------------------------- create_gold_layer -------------------------- *)

\* uuid.uuid5(namespace, name), rendered as text: a function of both
\* arguments that keeps different names apart.
Uuid5(namespace, name) == "uuid5(" \o namespace \o "," \o name \o ")"

NAMESPACE_EMA == Uuid5("NAMESPACE_DNS", "ema.europa.eu")

generate_coreason_id(source_id) == Uuid5(NAMESPACE_EMA, source_id)

\* The text hashed into history_id: concat_str of coreason_id and valid_from
\* cast to a string, separated by "_".
HistoryIdText(row) ==
    generate_coreason_id(row.id) \o "_" \o ToString(row.valid_from)

HistoryId(row) == Uuid5("NAMESPACE_OID", HistoryIdText(row))

\* fact_regulatory_history: one fact per row of the silver history, with the
\* columns this history carries (status_normalized and spor_mah_id are selected
\* unchanged and take no part in history_id).
FactRegulatoryHistory(silver_df) ==
    MapRows(silver_df,
            [r \in DOMAIN silver_df |->
                [history_id |-> HistoryId(r),
                 coreason_id |-> generate_coreason_id(r.id),
                 valid_from |-> r.valid_from,
                 valid_to |-> r.valid_to,
                 is_current |-> r.is_current]])

(* ------------------------------- strings ------------------------------- *)

\* The i-th character of a string.
CharAt(s, i) == SubSeq(s, i, i)

\* The string from its i-th character on.
From(s, i) == SubSeq(s, i, Len(s))

\* str.contains(pattern) for a pattern without regex metacharacters.
Contains(s, pattern) ==
    \E i \in 1..(Len(s) - Len(pattern) + 1) : SubSeq(s, i, i + Len(pattern) - 1) = pattern

\* str.replace_all(from, to) for a one-character pattern.
RECURSIVE ReplaceAll(_, _, _)
ReplaceAll(s, from, to) ==
    IF Len(s) = 0 THEN ""
    ELSE (IF CharAt(s, 1) = from THEN to ELSE CharAt(s, 1)) \o ReplaceAll(From(s, 2), from, to)

\* str.split(by) for a one-character separator: the segments from left to
\* right, one more than there are separators.
RECURSIVE Split(_, _)
Split(s, by) ==
    IF ~Contains(s, by) THEN <<s>>
    ELSE LET i == CHOOSE j \in 1..Len(s) :
                      CharAt(s, j) = by /\ \A k \in 1..(j - 1) : CharAt(s, k) # by
         IN  <<SubSeq(s, 1, i - 1)>> \o Split(From(s, i + 1), by)

\* str.strip_chars(): leading and trailing whitespace removed.
RECURSIVE StripChars(_)
StripChars(s) ==
    IF Len(s) = 0 THEN ""
    ELSE IF CharAt(s, 1) = " " THEN StripChars(From(s, 2))
    ELSE IF CharAt(s, Len(s)) = " " THEN StripChars(SubSeq(s, 1, Len(s) - 1))
    ELSE s

\* The letters str.to_uppercase() changes, and what it changes them to.
Lowercase == "abcdefghijklmnopqrstuvwxyz"
Uppercase == "ABCDEFGHIJKLMNOPQRSTUVWXYZ"

\* str.to_uppercase()
RECURSIVE ToUppercase(_)
ToUppercase(s) ==
    IF Len(s) = 0 THEN ""
    ELSE LET c == CharAt(s, 1)
             u == IF Contains(Lowercase, c)
                  THEN CharAt(Uppercase, CHOOSE i \in 1..Len(Lowercase) : CharAt(Lowercase, i) = c)
                  ELSE c
         IN  u \o ToUppercase(From(s, 2))

\* list.join(separator) of a list without null elements.
RECURSIVE ListJoin(_, _)
ListJoin(list, separator) ==
    IF Len(list) = 0 THEN ""
    ELSE IF Len(list) = 1 THEN list[1]
    ELSE list[1] \o separator \o ListJoin(Tail(list), separator)

(* -------------------------- clean_epar_bronze -------------------------- *)

\* A null cell of a list column (None).
NullList == <<NullStr>>

\* The character standing for U+200B (zero width space).
Zwsp == "_"

\* Step 1: pl.col(col).cast(pl.String).str.replace_all(r"[\u200b]", "")
StripInvisible(v) == IF v = NullStr THEN NullStr ELSE ReplaceAll(v, Zwsp, "")

\* list.eval(pl.element().filter(pl.element().str.len_chars() > 0))
RECURSIVE DropEmpty(_)
DropEmpty(list) ==
    IF Len(list) = 0 THEN <<>>
    ELSE IF Len(list[1]) > 0 THEN <<list[1]>> \o DropEmpty(Tail(list))
    ELSE DropEmpty(Tail(list))

\* Step 3: active_substance_list.  "+" replaced by "/", split on "/", every
\* segment stripped, empty segments dropped; the segments stay in the order
\* of the text.
ActiveSubstanceList(active_substance) ==
    IF active_substance = NullStr THEN NullList
    ELSE LET parts == Split(ReplaceAll(active_substance, "+", "/"), "/")
         IN  DropEmpty([i \in 1..Len(parts) |-> StripChars(parts[i])])

\* get_status_normalization_expr: the first branch whose condition holds on
\* the stripped, uppercased text; a null text satisfies no condition.
StatusNormalized(authorisation_status) ==
    IF authorisation_status = NullStr THEN "UNKNOWN"
    ELSE LET col == ToUppercase(StripChars(authorisation_status))
         IN  IF Contains(col, "REFUSED") THEN "REJECTED"
             ELSE IF Contains(col, "WITHDRAWN") THEN "WITHDRAWN"
             ELSE IF Contains(col, "SUSPENDED") THEN "SUSPENDED"
             ELSE IF Contains(col, "CONDITIONAL") THEN "CONDITIONAL_APPROVAL"
             ELSE IF Contains(col, "EXCEPTIONAL") THEN "EXCEPTIONAL_CIRCUMSTANCES"
             ELSE IF Contains(col, "AUTHORISED") /\ ~Contains(col, "NOT ") THEN "APPROVED"
             ELSE "UNKNOWN"

\* Whether a character is a decimal digit / an uppercase letter.
IsDigit(c) == Len(c) = 1 /\ Contains("0123456789", c)
IsUpper(c) == Len(c) = 1 /\ Contains(Uppercase, c)

\* Step 2: base_procedure_id = str.extract(r"EMEA/H/C/(\d+)", 1): the digits
\* after the first "EMEA/H/C/" that is followed by a digit, null without one.
BaseProcedureId(product_number) ==
    IF product_number = NullStr THEN NullStr
    ELSE LET s      == product_number
             prefix == "EMEA/H/C/"
             starts == {i \in 1..(Len(s) - Len(prefix)) :
                            /\ SubSeq(s, i, i + Len(prefix) - 1) = prefix
                            /\ IsDigit(CharAt(s, i + Len(prefix)))}
         IN  IF starts = {} THEN NullStr
             ELSE LET i == CHOOSE j \in starts : \A k \in starts : j <= k
                      d == i + Len(prefix)
                      e == CHOOSE k \in d..Len(s) :
                               /\ \A j \in d..k : IsDigit(CharAt(s, j))
                               /\ (k = Len(s) \/ ~IsDigit(CharAt(s, k + 1)))
                  IN  SubSeq(s, d, e)

\* Variant of IsAtcL7: the pattern without its end anchor.
IsAtcL7Unanchored(t) ==
    /\ Len(t) >= 7
    /\ IsUpper(CharAt(t, 1))
    /\ IsDigit(CharAt(t, 2)) /\ IsDigit(CharAt(t, 3))
    /\ IsUpper(CharAt(t, 4)) /\ IsUpper(CharAt(t, 5))
    /\ IsDigit(CharAt(t, 6)) /\ IsDigit(CharAt(t, 7))

\* The strict L7 pattern ^[A-Z]\d{2}[A-Z]{2}\d{2}$.
IsAtcL7(t) ==
    /\ Len(t) = 7
    /\ IsUpper(CharAt(t, 1))
    /\ IsDigit(CharAt(t, 2)) /\ IsDigit(CharAt(t, 3))
    /\ IsUpper(CharAt(t, 4)) /\ IsUpper(CharAt(t, 5))
    /\ IsDigit(CharAt(t, 6)) /\ IsDigit(CharAt(t, 7))

\* Step 4: atc_code_list.  Uppercased, "," replaced by ";", split on ";",
\* every token stripped, empty tokens and tokens off the L7 pattern dropped.
AtcCodeList(atc_code) ==
    IF atc_code = NullStr THEN NullList
    ELSE LET parts == Split(ReplaceAll(ToUppercase(atc_code), ",", ";"), ";")
         IN  SelectSeq(DropEmpty([i \in 1..Len(parts) |-> StripChars(parts[i])]),
                       LAMBDA t : IsAtcL7(t))

(* ------------------------- frames with a schema ------------------------ *)

\* A frame is [schema, rows].  schema is the sequence of its columns, each
\* [name, dtype], in column order; a row is a record over the column names.
\* The rows of a snapshot are a sequence, the rows of a history a multiset.
\* An operation that raises returns [error |-> the exception's name].
Column(name, dtype) == [name |-> name, dtype |-> dtype]
Frame(schema, rows) == [schema |-> schema, rows |-> rows]
Error(name) == [error |-> name]
IsError(x) == "error" \in DOMAIN x

\* The set of df.columns.
ColumnNames(schema) == {schema[i].name : i \in 1..Len(schema)}

\* schema.get(c): the dtype of column c, None when there is no such column.
SchemaGet(schema, c) ==
    IF c \in ColumnNames(schema)
    THEN schema[CHOOSE i \in 1..Len(schema) : schema[i].name = c].dtype
    ELSE NullStr

\* The schema after df.with_columns(name = ...): the column is replaced where
\* it stands, or added as the last one.
WithColumn(schema, name, dtype) ==
    IF name \in ColumnNames(schema)
    THEN [i \in 1..Len(schema) |->
            IF schema[i].name = name THEN Column(name, dtype) ELSE schema[i]]
    ELSE Append(schema, Column(name, dtype))

\* df.with_columns(name = v) for one row: the cell is added or replaced.
SetCell(row, name, v) ==
    [c \in DOMAIN row \cup {name} |-> IF c = name THEN v ELSE row[c]]

\* df.drop(name) for one row.
DropCell(row, name) == [c \in DOMAIN row \ {name} |-> row[c]]

\* A null Int64 cell (None).
NullInt == -1

\* The null cell of a column of the given dtype.
NullOf(dtype) ==
    IF dtype = "List" THEN NullList
    ELSE IF dtype = "Int64" THEN NullInt
    ELSE IF dtype = "Datetime" THEN NullTs
    ELSE NullStr

IsNull(v, dtype) == v = NullOf(dtype)

\* The decimal digits, and the number a string of digits stands for.
Digits == "0123456789"
IsDigits(s) == Len(s) > 0 /\ \A i \in 1..Len(s) : IsDigit(CharAt(s, i))
RECURSIVE ParseInt(_)
ParseInt(s) ==
    IF Len(s) = 0 THEN 0
    ELSE 10 * ParseInt(SubSeq(s, 1, Len(s) - 1))
         + (CHOOSE d \in 0..9 : CharAt(Digits, d + 1) = CharAt(s, Len(s)))

\* Whether the strict pl.col(c).cast(to) raises on the cell v of dtype from:
\* a text that is no number has no Int64 value.
CastFails(v, from, to) ==
    /\ from = "String" /\ to = "Int64"
    /\ ~IsNull(v, from) /\ ~IsDigits(v)

\* The cell v of dtype from after pl.col(c).cast(to).
Cast(v, from, to) ==
    IF from = to THEN v
    ELSE IF IsNull(v, from) THEN NullOf(to)
    ELSE IF from = "Int64" /\ to = "String" THEN ToString(v)
    ELSE IF from = "String" /\ to = "Int64" THEN ParseInt(v)
    ELSE v

\* string_cols of clean_epar_bronze (id stands for product_number).
StringCols ==
    {"medicine_name", "marketing_authorisation_holder", "active_substance",
     "atc_code", "therapeutic_area", "authorisation_status", "url", "id"}

\* clean_epar_bronze on one row of a frame with the given schema: steps 1-5 in
\* order, each reading the columns as the step before left them.  A source
\* column the frame does not have gives a null derived column.
CleanRow(schema, row) ==
    LET has(c)   == c \in ColumnNames(schema)
        stripped == [c \in DOMAIN row |->
                        IF c \in StringCols THEN StripInvisible(row[c]) ELSE row[c]]
        derived  == [base_procedure_id     |-> BaseProcedureId(stripped.id),
                     active_substance_list |->
                         IF has("active_substance")
                         THEN ActiveSubstanceList(stripped.active_substance) ELSE NullList,
                     atc_code_list         |->
                         IF has("atc_code") THEN AtcCodeList(stripped.atc_code) ELSE NullList,
                     status_normalized     |->
                         IF has("authorisation_status")
                         THEN StatusNormalized(stripped.authorisation_status) ELSE NullStr]
    IN  [c \in DOMAIN stripped \cup DOMAIN derived |->
            IF c \in DOMAIN derived THEN derived[c] ELSE stripped[c]]

\* clean_epar_bronze(df)
CleanEparBronze(df) ==
    Frame(WithColumn(WithColumn(WithColumn(WithColumn(df.schema,
              "base_procedure_id", "String"),
              "active_substance_list", "List"),
              "atc_code_list", "List"),
              "status_normalized", "String"),
          [i \in 1..Len(df.rows) |-> CleanRow(df.schema, df.rows[i])])

(* ------------------- generate_row_hash on a frame ---------------------- *)

\* The expression generate_row_hash builds for column c, on one row: the
\* literal "" for a column the frame does not have, list.join(";") for a list
\* column, cast(pl.String) otherwise, nulls filled with "".
HashExpr(schema, row, c) ==
    LET dtype == SchemaGet(schema, c)
    IN  IF dtype = NullStr THEN ""
        ELSE IF dtype = "List"
             THEN (IF IsNull(row[c], dtype) THEN "" ELSE ListJoin(row[c], ";"))
        ELSE FillNull(Cast(row[c], dtype, "String"))

\* The row_hash of one row over the given columns.
RowHash(schema, row, columns) ==
    Md5(ConcatStr([i \in 1..Len(columns) |-> HashExpr(schema, row, columns[i])]))

\* generate_row_hash(df, columns)
GenerateRowHashFrame(df, columns) ==
    Frame(WithColumn(df.schema, "row_hash", "String"),
          [i \in 1..Len(df.rows) |->
              SetCell(df.rows[i], "row_hash", RowHash(df.schema, df.rows[i], columns))])

(* ------------------------ apply_scd2 on frames ------------------------- *)

\* The schema after with_columns(valid_from = ..., valid_to = ..., is_current = ...).
WithScdColumns(schema) ==
    WithColumn(WithColumn(WithColumn(schema, "valid_from", "Datetime"),
                          "valid_to", "Datetime"),
               "is_current", "Boolean")

\* OpenVersion for a row of any columns: hist_row_hash dropped, valid_from =
\* ingestion_ts, valid_to = None, is_current = True.
OpenVersionFrame(row, ingestion_ts) ==
    SetCell(SetCell(SetCell(DropCell(row, "hist_row_hash"),
                            "valid_from", ingestion_ts),
                    "valid_to", NullTs),
            "is_current", TRUE)

\* JoinRow for a snapshot row of any columns.
JoinRowFrame(row, hist_renamed) ==
    LET matches == Filter(hist_renamed, {h \in DOMAIN hist_renamed : h.id = row.id})
    IN  IF DOMAIN matches = {}
        THEN SetToBag({SetCell(row, "hist_row_hash", NullStr)})
        ELSE MapRows(matches,
                     [h \in DOMAIN matches |-> SetCell(row, "hist_row_hash", h.hist_row_hash)])

\* joined = snapshot_hashed.join(hist_renamed, on=primary_key, how="left")
RECURSIVE JoinedFrame(_, _)
JoinedFrame(snapshot_rows, hist_renamed) ==
    IF Len(snapshot_rows) = 0 THEN EmptyBag
    ELSE JoinRowFrame(Head(snapshot_rows), hist_renamed)
         (+) JoinedFrame(Tail(snapshot_rows), hist_renamed)

\* new_entries = pl.concat([new_records, changed_records]).with_columns(...)
NewEntriesFrame(new_records, changed_records, ingestion_ts) ==
    LET both == new_records (+) changed_records
    IN  MapRows(both, [r \in DOMAIN both |-> OpenVersionFrame(r, ingestion_ts)])

\* The columns of pl.concat(how="diagonal"): those of the first frame, then
\* the columns only the second one has.
RECURSIVE UnionSchema(_, _)
UnionSchema(schema, other) ==
    IF Len(other) = 0 THEN schema
    ELSE UnionSchema(IF Head(other).name \in ColumnNames(schema)
                     THEN schema ELSE Append(schema, Head(other)),
                     Tail(other))

\* A row of a frame with the given schema, with a null cell for every column
\* of the wider schema it does not have.
Padded(row, wide) ==
    [c \in ColumnNames(wide) |->
        IF c \in DOMAIN row THEN row[c] ELSE NullOf(SchemaGet(wide, c))]

\* pl.concat([closed_history, history_to_keep, closed_updates, new_entries],
\* how="diagonal"): the first three have the history's schema.  A column the
\* frames share must have one dtype in all of them.
ConcatDiagonal(hist_schema, hist_rows, entry_schema, new_entries) ==
    IF \E c \in ColumnNames(hist_schema) \cap ColumnNames(entry_schema) :
           SchemaGet(hist_schema, c) # SchemaGet(entry_schema, c)
    THEN Error("SchemaError")
    ELSE LET wide == UnionSchema(hist_schema, entry_schema)
         IN  Frame(wide,
                   MapRows(hist_rows, [r \in DOMAIN hist_rows |-> Padded(r, wide)])
                   (+) MapRows(new_entries, [r \in DOMAIN new_entries |-> Padded(r, wide)]))

\* Variant of SelectCast: the columns of the history are cast, and the other
\* columns of df are kept as they are.
SelectCastKeepAll(df, hist_schema) ==
    IF ~(ColumnNames(hist_schema) \subseteq ColumnNames(df.schema))
    THEN Error("ColumnNotFoundError")
    ELSE IF \E r \in DOMAIN df.rows, c \in ColumnNames(hist_schema) :
                CastFails(r[c], SchemaGet(df.schema, c), SchemaGet(hist_schema, c))
    THEN Error("InvalidOperationError")
    ELSE Frame(UnionSchema(hist_schema, df.schema),
               MapRows(df.rows,
                       [r \in DOMAIN df.rows |->
                           [c \in ColumnNames(df.schema) |->
                               IF c \in ColumnNames(hist_schema)
                               THEN Cast(r[c], SchemaGet(df.schema, c), SchemaGet(hist_schema, c))
                               ELSE r[c]]]))

\* df.select([pl.col(c).cast(schema[c]) for c in columns]) with the schema and
\* columns of the history.
SelectCast(df, hist_schema) ==
    IF ~(ColumnNames(hist_schema) \subseteq ColumnNames(df.schema))
    THEN Error("ColumnNotFoundError")
    ELSE IF \E r \in DOMAIN df.rows, c \in ColumnNames(hist_schema) :
                CastFails(r[c], SchemaGet(df.schema, c), SchemaGet(hist_schema, c))
    THEN Error("InvalidOperationError")
    ELSE Frame(hist_schema,
               MapRows(df.rows,
                       [r \in DOMAIN df.rows |->
                           [c \in ColumnNames(hist_schema) |->
                               Cast(r[c], SchemaGet(df.schema, c), SchemaGet(hist_schema, c))]]))

\* apply_scd2(current_snapshot, history, primary_key = "id", ingestion_ts,
\* hash_columns) on frames that carry their schema: the result frame, or the
\* error it raises.
ApplyScd2Frames(current_snapshot, hist, ingestion_ts, hash_columns) ==
    LET snapshot_unique  == Frame(current_snapshot.schema,
                                  UniqueKeepFirst(current_snapshot.rows, {}))
        snapshot_hashed  == GenerateRowHashFrame(snapshot_unique, hash_columns)
        entry_schema     == WithScdColumns(snapshot_hashed.schema)
        result           == Frame(entry_schema,
                                  SeqToBag([i \in 1..Len(snapshot_hashed.rows) |->
                                      OpenVersionFrame(snapshot_hashed.rows[i], ingestion_ts)]))
        current_history  == CurrentHistory(hist.rows)
        closed_history   == ClosedHistory(hist.rows)
        joined           == JoinedFrame(snapshot_hashed.rows, HistRenamed(current_history))
        new_records      == NewRecords(joined)
        changed_records  == ChangedRecords(joined)
        keys_to_close    == KeysToClose(changed_records, current_history, snapshot_hashed.rows)
        history_to_close == HistoryToClose(current_history, keys_to_close)
        history_to_keep  == HistoryToKeep(current_history, keys_to_close)
        closed_updates   == ClosedUpdates(history_to_close, ingestion_ts)
        new_entries      == NewEntriesFrame(new_records, changed_records, ingestion_ts)
        final_history    == ConcatDiagonal(hist.schema,
                                           closed_history (+) history_to_keep (+) closed_updates,
                                           entry_schema, new_entries)
    IN  IF Height(hist.rows) = 0
        THEN (IF Len(hist.schema) > 0 THEN SelectCast(result, hist.schema) ELSE result)
        ELSE IF IsError(final_history) THEN final_history
        ELSE SelectCast(final_history, hist.schema)

(* --------------- behaviour: cleaning followed by the merge ------------- *)

\* Source texts of the active_substance field: null, empty, one substance
\* with a zero width space, two substances in both orders with the delimiters
\* "+" and "/" and spaces around them, and one text holding the ";" the row
\* hash joins list elements with.
RawSubstances == {NullStr, "", " A_", "A+B", "B / A", "A;B"}

BronzeSchema == <<Column("id", "String"), Column("active_substance", "String")>>

\* The bronze frames a run may load: no row, or one row of the key K1.
BronzeFrames ==
    {Frame(BronzeSchema, <<>>)}
    \cup {Frame(BronzeSchema, <<[id |-> "K1", active_substance |-> t]>>) :
            t \in RawSubstances}

\* hash_columns of the merges of cleaned frames: the derived list column.
CleanHashColumns == <<"active_substance_list">>

\* The columns a caller declares for the history of cleaned frames.
CleanHistorySchema ==
    <<Column("id", "String"), Column("active_substance_list", "List"),
      Column("valid_from", "Datetime"), Column("valid_to", "Datetime"),
      Column("is_current", "Boolean"), Column("row_hash", "String")>>

\* The history before the first run: no rows, with no columns or with the
\* declared ones.
InitClean ==
    /\ history = EmptyBag
    /\ clock = NullTs
    /\ inOrder = TRUE
    /\ files = NoFiles
    /\ pc = Idle
    /\ bronze = NoFrame
    /\ silver \in {Frame(<<>>, EmptyBag), Frame(CleanHistorySchema, EmptyBag)}

\* One run: the bronze frame is cleaned and merged into the history; a merge
\* that raises leaves no new history.
LoadClean(b, ts) ==
    LET result == ApplyScd2Frames(CleanEparBronze(b), silver, ts, CleanHashColumns)
    IN  /\ ~IsError(result)
        /\ Height(result.rows) <= MaxHeight
        /\ silver' = result
        /\ UNCHANGED <<history, clock, inOrder, bronze, files, pc>>

NextClean == \E b \in BronzeFrames, ts \in Timestamps : LoadClean(b, ts)

SpecClean == InitClean /\ [][NextClean]_vars

(* ------------- behaviour: merges of frames of varying schema ----------- *)

\* The columns apply_scd2 maintains, as a history declares them.
ScdColumns ==
    <<Column("valid_from", "Datetime"), Column("valid_to", "Datetime"),
      Column("is_current", "Boolean"), Column("row_hash", "String")>>

\* Snapshot schemas: the hashed column data as a string column, with a further
\* column note that is not hashed, without the hashed column, and with the
\* hashed column as an integer column.
DataSchema    == <<Column("id", "String"), Column("data", "String")>>
NoteSchema    == <<Column("id", "String"), Column("data", "String"), Column("note", "String")>>
NoDataSchema  == <<Column("id", "String"), Column("note", "String")>>
IntDataSchema == <<Column("id", "String"), Column("data", "Int64")>>

\* The snapshots a merge may be given: no row, or one row of the key K1.
FrameSnapshots ==
    {Frame(DataSchema, <<>>)}
    \cup {Frame(DataSchema, <<[id |-> "K1", data |-> d]>>) : d \in {"A", "", NullStr, "8"}}
    \cup {Frame(NoteSchema, <<[id |-> "K1", data |-> "A", note |-> n]>>) : n \in {"x", "y"}}
    \cup {Frame(NoDataSchema, <<[id |-> "K1", note |-> "x"]>>)}
    \cup {Frame(IntDataSchema, <<[id |-> "K1", data |-> d]>>) : d \in {7, 8}}

\* The schemas of the history before the first merge: no columns
\* (pl.DataFrame()), or declared columns with data as a string column, with
\* the note column as well, or with data as an integer column.
FrameHistorySchemas ==
    {<<>>,
     DataSchema \o ScdColumns,
     NoteSchema \o ScdColumns,
     IntDataSchema \o ScdColumns}

InitFrames ==
    /\ history = EmptyBag
    /\ clock = NullTs
    /\ inOrder = TRUE
    /\ files = NoFiles
    /\ pc = Idle
    /\ bronze = NoFrame
    /\ silver \in {Frame(schema, EmptyBag) : schema \in FrameHistorySchemas}

\* One run: the snapshot is merged into the history at the next timestamp;
\* bronze keeps the snapshot of the latest run.  A merge that raises leaves
\* no new history.
MergeFrames(snapshot) ==
    LET ts     == clock + 1
        result == ApplyScd2Frames(snapshot, silver, ts, HashColumns)
    IN  /\ ts \in Timestamps
        /\ ~IsError(result)
        /\ Height(result.rows) <= MaxHeight
        /\ bronze' = snapshot
        /\ silver' = result
        /\ clock' = ts
        /\ UNCHANGED <<history, inOrder, files, pc>>

NextFrames == \E snapshot \in FrameSnapshots : MergeFrames(snapshot)

SpecFrames == InitFrames /\ [][NextFrames]_vars

(* ------------------ behaviour: cleaning of status texts ---------------- *)

\* Source texts of the authorisation_status field: a keyword or a neighbour
\* of one, after nothing, a space, a negation or the word Marketing, and
\* before nothing or a remark holding a keyword of another branch; and null.
StatusPrefixes == {"", " ", "Marketing ", "Not ", "Not Marketing ", "Un", "Non-", "De-"}
StatusCores ==
    {"Authorised", "authorised", "Authorisation", "Refused", "Withdrawn",
     "Suspended", "Suspension Lifted", "Conditional", "Exceptional", "Expired",
     "Pending"}
StatusSuffixes == {"", " (prior Conditional approval)", " Expired"}
StatusTexts ==
    {p \o c \o x : p \in StatusPrefixes, c \in StatusCores, x \in StatusSuffixes}
    \cup {NullStr}

StatusSchema == <<Column("id", "String"), Column("authorisation_status", "String")>>

\* The bronze frames of one row of the key K1 with a status text.
StatusFrames ==
    {Frame(StatusSchema, <<[id |-> "K1", authorisation_status |-> t]>>) : t \in StatusTexts}

\* A bronze frame is loaded and not yet cleaned.
InitStatus ==
    /\ history = EmptyBag
    /\ clock = NullTs
    /\ inOrder = TRUE
    /\ files = NoFiles
    /\ pc = Idle
    /\ bronze \in StatusFrames
    /\ silver = NoFrame

\* The bronze frame is cleaned into the silver frame.
CleanStatus ==
    /\ Len(silver.schema) = 0
    /\ silver' = CleanEparBronze(bronze)
    /\ UNCHANGED <<history, clock, inOrder, bronze, files, pc>>

NextStatus == CleanStatus

SpecStatus == InitStatus /\ [][NextStatus]_vars

(* ------------------- behaviour: cleaning of ATC codes ------------------ *)

\* Tokens of the atc_code field: a code, the code in lower case, a code with
\* spaces around it, a code after a zero width space, a code that is too
\* short, one with a letter for a digit, one that is too long, and nothing.
AtcTokens ==
    {"A01BC01", "a01bc01", " B02AD03 ", "_A01BC01", "A01", "A01BC0X", "A01BC011", ""}

\* Source texts of the field: one token, or two around "," or ";"; and null.
AtcTexts ==
    AtcTokens
    \cup {t \o sep \o u : t \in AtcTokens, sep \in {",", ";"}, u \in AtcTokens}
    \cup {NullStr}

AtcSchema == <<Column("id", "String"), Column("atc_code", "String")>>

\* The bronze frames of one row of the key K1 with an atc_code text.
AtcFrames ==
    {Frame(AtcSchema, <<[id |-> "K1", atc_code |-> t]>>) : t \in AtcTexts}

\* A bronze frame is loaded and not yet cleaned.
InitAtc ==
    /\ history = EmptyBag
    /\ clock = NullTs
    /\ inOrder = TRUE
    /\ files = NoFiles
    /\ pc = Idle
    /\ bronze \in AtcFrames
    /\ silver = NoFrame

\* The bronze frame is cleaned into the silver frame.
CleanAtc ==
    /\ Len(silver.schema) = 0
    /\ silver' = CleanEparBronze(bronze)
    /\ UNCHANGED <<history, clock, inOrder, bronze, files, pc>>

NextAtc == CleanAtc

SpecAtc == InitAtc /\ [][NextAtc]_vars

(* ------------------------------ enrich_epar ---------------------------- *)

\* str.lower()
RECURSIVE ToLowercase(_)
ToLowercase(s) ==
    IF Len(s) = 0 THEN ""
    ELSE LET c == CharAt(s, 1)
             l == IF Contains(Uppercase, c)
                  THEN CharAt(Lowercase, CHOOSE i \in 1..Len(Uppercase) : CharAt(Uppercase, i) = c)
                  ELSE c
         IN  l \o ToLowercase(From(s, 2))

Min2(a, b) == IF a < b THEN a ELSE b
Max2(a, b) == IF a > b THEN a ELSE b

\* The n-th smallest member of a set of indices.
NthOf(indices, n) ==
    CHOOSE i \in indices : Cardinality({j \in indices : j < i}) = n - 1

\* A score is the fraction num / den, den > 0.
Score(num, den) == [num |-> num, den |-> den]
ScoreGreater(a, b) == a.num * b.den > b.num * a.den
ScoreEqual(a, b) == a.num * b.den = b.num * a.den

\* The first loop of jaro_winkler from position i of s1 on: s1_matches and
\* s2_matches after it.  Position i takes the first unused position of s2
\* within match_distance that holds the same character.
RECURSIVE JaroMatches(_, _, _, _, _)
JaroMatches(s1, s2, i, s1_matches, s2_matches) ==
    IF i > Len(s1) THEN [s1 |-> s1_matches, s2 |-> s2_matches]
    ELSE LET match_distance == (Max2(Len(s1), Len(s2)) \div 2) - 1
             start == Max2(1, i - match_distance)
             end   == Min2(i + match_distance, Len(s2))
             free  == {j \in start..end :
                          j \notin s2_matches /\ CharAt(s1, i) = CharAt(s2, j)}
         IN  IF free = {}
             THEN JaroMatches(s1, s2, i + 1, s1_matches, s2_matches)
             ELSE JaroMatches(s1, s2, i + 1, s1_matches \cup {i},
                              s2_matches \cup {NthOf(free, 1)})

\* jaro_winkler(s1, s2), as an exact fraction.
JaroWinkler(s1, s2) ==
    IF s1 = s2 THEN Score(1, 1)
    ELSE IF Len(s1) = 0 \/ Len(s2) = 0 THEN Score(0, 1)
    ELSE LET found   == JaroMatches(s1, s2, 1, {}, {})
             matches == Cardinality(found.s1)
             transpositions ==
                 Cardinality({k \in 1..matches :
                     CharAt(s1, NthOf(found.s1, k)) # CharAt(s2, NthOf(found.s2, k))}) \div 2
             jaro_num == matches * matches * Len(s2) + matches * matches * Len(s1)
                            + (matches - transpositions) * Len(s1) * Len(s2)
             jaro_den == 3 * Len(s1) * Len(s2) * matches
             limit  == Min2(Min2(Len(s1), Len(s2)), 4)
             prefix == Cardinality({i \in 1..limit :
                           \A j \in 1..i : CharAt(s1, j) = CharAt(s2, j)})
         IN  IF matches = 0 THEN Score(0, 1)
             ELSE Score(10 * jaro_num + prefix * (jaro_den - jaro_num), 10 * jaro_den)

\* calc_dist
CalcDist(marketing_authorisation_holder, spor_name) ==
    JaroWinkler(ToLowercase(marketing_authorisation_holder), ToLowercase(spor_name))

\* The threshold 0.90 of the filter on score.
Threshold == Score(9, 10)

\* The order of characters in a comparison of strings (the code points of
\* the characters the registry ids are made of).
CodePoints == "-0123456789ABCDEFGHIJKLMNOPQRSTUVWXYZ"
CodePoint(c) == CHOOSE i \in 1..Len(CodePoints) : CharAt(CodePoints, i) = c

\* a < b for strings, as sort compares them.
RECURSIVE StrLess(_, _)
StrLess(a, b) ==
    IF Len(b) = 0 THEN FALSE
    ELSE IF Len(a) = 0 THEN TRUE
    ELSE IF CharAt(a, 1) = CharAt(b, 1) THEN StrLess(From(a, 2), From(b, 2))
    ELSE CodePoint(CharAt(a, 1)) < CodePoint(CharAt(b, 1))

\* Variant of SortsBefore: ties on the score go to the greater spor_id.
SortsBeforeIdDescending(a, b) ==
    \/ ScoreGreater(a.score, b.score)
    \/ ScoreEqual(a.score, b.score) /\ StrLess(b.spor_id, a.spor_id)

\* Whether row a of the cross join sorts strictly before row b under
\* sort(["score", "spor_id"], descending=[True, False]).
SortsBefore(a, b) ==
    \/ ScoreGreater(a.score, b.score)
    \/ ScoreEqual(a.score, b.score) /\ StrLess(a.spor_id, b.spor_id)

\* Variant of Candidates: the filter keeps scores of 0.90 as well.
CandidatesInclusive(holder, spor_rows) ==
    {c \in {[score |-> CalcDist(holder, spor_rows[i].name),
             spor_id |-> spor_rows[i].org_id] : i \in 1..Len(spor_rows)} :
        ~ScoreGreater(Threshold, c.score)}

\* The rows of the cross join for one holder that pass the filter
\* score > 0.90, as (score, spor_id).
Candidates(holder, spor_rows) ==
    {c \in {[score |-> CalcDist(holder, spor_rows[i].name),
             spor_id |-> spor_rows[i].org_id] : i \in 1..Len(spor_rows)} :
        ScoreGreater(c.score, Threshold)}

\* matches_df for one holder: the spor_id of the first candidate after the
\* sort, null when the left join finds no row for the holder.
Matched(holder, spor_rows) ==
    LET candidates == Candidates(holder, spor_rows)
    IN  IF candidates = {} THEN NullStr
        ELSE (CHOOSE c \in candidates :
                  \A d \in candidates : ~SortsBefore(d, c)).spor_id

\* enrich_epar(df, spor_df): the frame with the column spor_mah_id.  With an
\* empty registry the column is set to null on every row; otherwise the
\* matches are joined in and spor_id is renamed, which raises when df has a
\* column spor_mah_id already.
EnrichEpar(df, spor_df) ==
    IF Len(spor_df.rows) = 0
    THEN Frame(WithColumn(df.schema, "spor_mah_id", "String"),
               MapRows(df.rows, [r \in DOMAIN df.rows |-> SetCell(r, "spor_mah_id", NullStr)]))
    ELSE IF "marketing_authorisation_holder" \notin ColumnNames(df.schema)
    THEN Error("ColumnNotFoundError")
    ELSE IF "spor_mah_id" \in ColumnNames(df.schema)
    THEN Error("DuplicateError")
    ELSE Frame(WithColumn(df.schema, "spor_mah_id", "String"),
               MapRows(df.rows,
                       [r \in DOMAIN df.rows |->
                           SetCell(r, "spor_mah_id",
                                   Matched(r.marketing_authorisation_holder, spor_df.rows))]))

(* -------------------- behaviour: enrichment of holders ----------------- *)

\* Largest number of rows of the registry.
MaxRegistry == 2

\* Holder names of the EPAR rows; names and ids of the registry.  Against
\* "TEVA" the names score 1 (Teva), 0.96 (Tevas) and exactly 0.90 (Tevxabc),
\* against "Abbe" 0.953 (Abbie) and exactly 0.90 (Abbe Ltd).
HolderNames == {"TEVA", "Abbe"}
SporNames == {"Teva", "Tevas", "Tevxabc", "Abbie", "Abbe Ltd"}
SporIds == {"ORG-10", "ORG-2"}

HolderSchema ==
    <<Column("id", "String"), Column("marketing_authorisation_holder", "String")>>
SporSchema == <<Column("name", "String"), Column("org_id", "String")>>

\* The cleaned frames of one row, and the registries of up to MaxRegistry
\* rows in every order.
HolderFrames ==
    {Frame(HolderSchema, SetToBag({[id |-> "K1", marketing_authorisation_holder |-> h]})) :
        h \in HolderNames}
SporFrames ==
    {Frame(SporSchema, rows) :
        rows \in UNION {[1..n -> [name : SporNames, org_id : SporIds]] : n \in 0..MaxRegistry}}

\* The frames are loaded and not yet enriched.
InitEnrich ==
    /\ history = EmptyBag
    /\ clock = NullTs
    /\ inOrder = TRUE
    /\ files = NoFiles
    /\ pc = Idle
    /\ bronze \in [epar : HolderFrames, spor : SporFrames]
    /\ silver = NoFrame

\* The holders are resolved against the registry.
Enrich ==
    /\ Len(silver.schema) = 0
    /\ silver' = EnrichEpar(bronze.epar, bronze.spor)
    /\ UNCHANGED <<history, clock, inOrder, bronze, files, pc>>

NextEnrich == Enrich

SpecEnrich == InitEnrich /\ [][NextEnrich]_vars

(* -------------------------- run_transformations ------------------------- *)

HistoryPath == "silver_history.parquet"

\* hash_cols of run_transformations.
hash_cols == <<"authorisation_status", "medicine_name", "marketing_authorisation_holder">>

\* The columns of bronze_epar the merge and the enrichment read; id stands for
\* product_number, the primary key.
EparSchema ==
    <<Column("id", "String"), Column("authorisation_status", "String"),
      Column("medicine_name", "String"), Column("marketing_authorisation_holder", "String")>>

EparStatuses == {"Authorised", "Withdrawn"}

\* The bronze frames a run is given: one product (execute skips the run when
\* there is none), and a registry of at most one organisation.
EparFrames ==
    {Frame(EparSchema,
           <<[id |-> k, authorisation_status |-> a, medicine_name |-> "M1",
              marketing_authorisation_holder |-> h]>>) :
        k \in Keys, a \in EparStatuses, h \in HolderNames}
RegistryFrames == {f \in SporFrames : Len(f.rows) <= 1}

Completed == [step |-> "done", target |-> HistoryPath, error |-> "", at |-> ""]
RunRaised(error, at) == [step |-> "raised", target |-> HistoryPath, error |-> error, at |-> at]

\* No history file, no run yet.
InitPipeline ==
    /\ history = EmptyBag
    /\ clock = NullTs
    /\ inOrder = TRUE
    /\ files = NoFiles
    /\ pc = Idle
    /\ bronze = NoFrame
    /\ silver = NoFrame

\* run_transformations(bronze_epar, bronze_spor, history_path): silver is the
\* frame stored at history_path (pl.DataFrame() while there is no file), the
\* ingestion timestamp is the time of the run, the merged and enriched history
\* replaces the file.  A run that raises in apply_scd2 or in enrich_epar
\* leaves the file as it was.  The gold tables are computed from the frame
\* just written and are read by no later run.
RunTransformations(bronze_epar, bronze_spor) ==
    LET ingestion_ts   == clock + 1
        silver_history == silver
        silver_scd     == ApplyScd2Frames(bronze_epar, silver_history, ingestion_ts, hash_cols)
        silver_enriched == IF IsError(silver_scd) THEN silver_scd
                           ELSE EnrichEpar(silver_scd, bronze_spor)
    IN  /\ ingestion_ts \in Timestamps
        /\ bronze' = [epar |-> bronze_epar, spor |-> bronze_spor]
        /\ clock' = ingestion_ts
        /\ IF IsError(silver_scd)
           THEN silver' = silver /\ pc' = RunRaised(silver_scd.error, "apply_scd2")
           ELSE IF IsError(silver_enriched)
           THEN silver' = silver /\ pc' = RunRaised(silver_enriched.error, "enrich_epar")
           ELSE /\ Height(silver_enriched.rows) <= MaxHeight
                /\ silver' = silver_enriched
                /\ pc' = Completed
        /\ UNCHANGED <<history, inOrder, files>>

NextPipeline ==
    \E bronze_epar \in EparFrames, bronze_spor \in RegistryFrames :
        RunTransformations(bronze_epar, bronze_spor)

SpecPipeline == InitPipeline /\ [][NextPipeline]_vars

(* ------------------- download_file and fetch_sources ------------------- *)

\* Largest number of chunks of a response body.
MaxChunks == 2

\* The chunks response.iter_content yields for the source of dest_path.
Body(dest_path) == [i \in 1..MaxChunks |-> [of |-> dest_path, no |-> i]]

\* What an earlier run left at a path.
Cached == <<[of |-> "cache", no |-> 1]>>

\* The position of fetch_sources inside download_file(url, dest_path), and
\* its end in an exception raised at a step.
At(step, dest_path) == [step |-> step, target |-> dest_path, error |-> "", at |-> ""]
Raised(dest_path, error) ==
    [step |-> "raised", target |-> dest_path, error |-> error, at |-> pc.step]

\* The except branch of download_file: the temp file is unlinked if it
\* exists, and the exception is raised again.
CleanedUp(dest_path) ==
    [files EXCEPT ![TempPath(dest_path)] = Absent]

\* fetch_sources is about to call download_file for the EPAR index.  The
\* directory may hold files of an earlier run: the EPAR file, a cached
\* organisations.zip (missing, a directory, 0 bytes or with content) and a
\* temp file of an interrupted run.
InitFetch ==
    /\ history = EmptyBag
    /\ clock = NullTs
    /\ inOrder = TRUE
    /\ bronze = NoFrame
    /\ silver = NoFrame
    /\ pc = At("get", EparPath)
    /\ \E epar \in {Absent, RegularFile(Cached)},
          spor \in {Absent, Directory, RegularFile(<<>>), RegularFile(Cached)},
          temp \in {Absent, RegularFile(Cached)}, stale \in {EparPath, SporPath} :
          files = [p \in Paths |->
                      IF p = EparPath THEN epar
                      ELSE IF p = SporPath THEN spor
                      ELSE IF p = TempPath(stale) THEN temp
                      ELSE Absent]

\* session.get and raise_for_status succeed.
GetOk ==
    /\ pc.step = "get"
    /\ pc' = At("open", pc.target)
    /\ UNCHANGED <<history, clock, inOrder, bronze, silver, files>>

\* session.get or raise_for_status raises a RequestException.
GetFails ==
    /\ pc.step = "get"
    /\ files' = CleanedUp(pc.target)
    /\ pc' = Raised(pc.target, "RequestException")
    /\ UNCHANGED <<history, clock, inOrder, bronze, silver>>

\* open(temp_path, "wb"): the temp file is created or truncated.
OpenTemp ==
    /\ pc.step = "open"
    /\ files' = [files EXCEPT ![TempPath(pc.target)] = RegularFile(<<>>)]
    /\ pc' = At("stream", pc.target)
    /\ UNCHANGED <<history, clock, inOrder, bronze, silver>>

\* The next chunk of the body is written to the temp file.
WriteChunk ==
    LET temp == TempPath(pc.target)
        sent == Len(files[temp].data)
    IN  /\ pc.step = "stream"
        /\ sent < Len(Body(pc.target))
        /\ files' = [files EXCEPT ![temp] =
                        RegularFile(Append(files[temp].data, Body(pc.target)[sent + 1]))]
        /\ UNCHANGED <<history, clock, inOrder, bronze, silver, pc>>

\* iter_content raises a RequestException (the stream breaks).
StreamFails ==
    /\ pc.step = "stream"
    /\ Len(files[TempPath(pc.target)].data) < Len(Body(pc.target))
    /\ files' = CleanedUp(pc.target)
    /\ pc' = Raised(pc.target, "RequestException")
    /\ UNCHANGED <<history, clock, inOrder, bronze, silver>>

\* f.write raises an OSError (the disk is full): no except branch of
\* download_file catches it.
WriteFails ==
    /\ pc.step = "stream"
    /\ Len(files[TempPath(pc.target)].data) < Len(Body(pc.target))
    /\ pc' = Raised(pc.target, "OSError")
    /\ UNCHANGED <<history, clock, inOrder, bronze, silver, files>>

\* The body is exhausted: the temp file and the response are closed.
EndOfStream ==
    /\ pc.step = "stream"
    /\ Len(files[TempPath(pc.target)].data) = Len(Body(pc.target))
    /\ pc' = At("replace", pc.target)
    /\ UNCHANGED <<history, clock, inOrder, bronze, silver, files>>

\* temp_path.replace(dest_path), and the return to fetch_sources: the SPOR
\* download follows the EPAR download.
Replace ==
    LET temp == TempPath(pc.target)
    IN  /\ pc.step = "replace"
        /\ files[pc.target].kind # "dir"
        /\ files' = [files EXCEPT ![pc.target] = files[temp], ![temp] = Absent]
        /\ pc' = IF pc.target = EparPath THEN At("get", SporPath) ELSE At("done", SporPath)
        /\ UNCHANGED <<history, clock, inOrder, bronze, silver>>

\* temp_path.replace(dest_path) onto a directory raises an OSError.
ReplaceFails ==
    /\ pc.step = "replace"
    /\ files[pc.target].kind = "dir"
    /\ pc' = Raised(pc.target, "OSError")
    /\ UNCHANGED <<history, clock, inOrder, bronze, silver, files>>

NextFetch ==
    \/ GetOk \/ GetFails \/ OpenTemp \/ WriteChunk \/ StreamFails
    \/ WriteFails \/ EndOfStream \/ Replace \/ ReplaceFails

SpecFetch == InitFetch /\ [][NextFetch]_vars

(* --------------------- vocabulary of the properties -------------------- *)

\* Number of rows of h that are current versions of key k.
CurrentCount(h, k) ==
    SumOver(h, {r \in DOMAIN h : r.id = k /\ r.is_current})

\* Number of rows of h that carry key k.
KeyCount(h, k) ==
    SumOver(h, {r \in DOMAIN h : r.id = k})

\* The rows of h with is_current = false / true, as multisets.
ClosedPart(h) == [r \in {x \in DOMAIN h : ~x.is_current} |-> h[r]]
CurrentPart(h) == [r \in {x \in DOMAIN h : x.is_current} |-> h[r]]

\* Row r with its interval ended at t and nothing else touched.
ClosedAt(r, t) == [r EXCEPT !.valid_to = t, !.is_current = FALSE]

\* The keys of a snapshot, and the first row it holds for key k.
SnapKeys(s) == {s[i].id : i \in 1..Len(s)}
FirstRow(s, k) ==
    s[CHOOSE i \in 1..Len(s) : s[i].id = k /\ \A j \in 1..(i - 1) : s[j].id # k]

\* The snapshot without the later rows of a repeated key.
RECURSIVE FirstOccurrences(_)
FirstOccurrences(s) ==
    IF s = <<>> THEN <<>>
    ELSE LET n    == Len(s)
             init == FirstOccurrences(SubSeq(s, 1, n - 1))
         IN  IF \E j \in 1..(n - 1) : s[j].id = s[n].id THEN init ELSE Append(init, s[n])

\* The fingerprint the merge computes for a snapshot row.
HashOf(row) == GenerateRowHash(row).row_hash

\* The fresh current version of a snapshot row at timestamp t.
FreshVersion(row, t) ==
    [id |-> row.id, data |-> row.data, valid_from |-> t, valid_to |-> NullTs,
     is_current |-> TRUE, row_hash |-> HashOf(row)]

\* Classification of key k of snapshot s against history h.
IsNewKey(s, h, k) == k \in SnapKeys(s) /\ CurrentCount(h, k) = 0
IsChangedKey(s, h, k) ==
    /\ k \in SnapKeys(s)
    /\ \E r \in DOMAIN h : r.id = k /\ r.is_current /\ r.row_hash # HashOf(FirstRow(s, k))
IsDeletedKey(s, h, k) == k \notin SnapKeys(s) /\ CurrentCount(h, k) > 0

(* -------------------------------- C1 ----------------------------------- *)

\* C1: after any sequence of merges from the empty history, with arbitrary
\* snapshots (duplicate keys included) and arbitrary ingestion timestamps,
\* every business key has at most one history row with is_current = true.
AtMostOneCurrent ==
    \A k \in Keys : CurrentCount(history, k) <= 1

\* A key that went through a change: one closed version and one current one.
WitnessAtMostOneCurrent ==
    \E k \in Keys :
        /\ CurrentCount(history, k) = 1
        /\ KeyCount(history, k) = 2

(* -------------------------------- C2 ----------------------------------- *)

\* The current rows of h that are no longer rows of g.
Vanished(h, g) == [r \in {x \in DOMAIN h : x.is_current /\ x \notin DOMAIN g} |-> h[r]]

\* The rows of v, each ended at t.
EndedAt(v, t) ==
    [c \in {ClosedAt(r, t) : r \in DOMAIN v} |->
        SumOver(v, {r \in DOMAIN v : ClosedAt(r, t) = c})]

\* C2: in a steady-state merge (history with at least one row) every input
\* row with is_current = false is in the output exactly as often as in the
\* input, with every column unchanged, whatever the snapshot holds: the closed
\* rows of the output are the closed rows of the input plus the rows this
\* merge closed, so no closed row is re-opened, restamped or dropped.
ClosedRowsPassThrough ==
    [][Height(history) > 0 =>
        \E t \in Timestamps :
            ClosedPart(history') =
                ClosedPart(history) (+) EndedAt(Vanished(history, history'), t)]_vars

\* A closed row of a key next to a newer version of the same key: the merge
\* that added the newer version had the closed row in its input.
WitnessClosedRowsPassThrough ==
    \E r \in DOMAIN history, n \in DOMAIN history :
        /\ ~r.is_current /\ n.id = r.id /\ n.is_current
        /\ n.valid_from > r.valid_to

(* -------------------------------- C3 ----------------------------------- *)

\* C3: across any sequence of merges no history row is removed; a closed row
\* stays as it is (valid_to never changes again); a current row either stays
\* as it is or turns into the same row with valid_to set to the timestamp of
\* the closing merge and is_current = false (valid_from, row_hash and the
\* business columns unchanged).
RowsAppendOnly ==
    [][\E t \in Timestamps :
        LET gone == Vanished(history, history')
            kept == [r \in DOMAIN history \ DOMAIN gone |-> history[r]]
        IN  (kept (+) EndedAt(gone, t)) \sqsubseteq history']_vars

\* A row that was created by one merge and closed by a later one, next to its
\* successor.
WitnessRowsAppendOnly ==
    \E r \in DOMAIN history, n \in DOMAIN history :
        /\ ~r.is_current /\ r.valid_from < r.valid_to
        /\ n.id = r.id /\ n.is_current /\ n.valid_from = r.valid_to
        /\ n.row_hash # r.row_hash

(* -------------------------------- C4 ----------------------------------- *)

\* C4 as stated: in every history produced by any sequence of merges from the
\* empty history, every row whose valid_to is set has valid_from <= valid_to.
\* A merge given an earlier timestamp than the merge that created a row closes
\* that row with valid_to < valid_from.
IntervalsOrdered ==
    \A r \in DOMAIN history : r.valid_to # NullTs => r.valid_from <= r.valid_to

\* C4 (amended): in every history produced from the empty history by merges
\* whose ingestion timestamps never decrease from one merge to the next, every
\* row whose valid_to is set has valid_from <= valid_to, with equality for a
\* row closed by a merge at the timestamp that created it.
IntervalsOrderedInOrder ==
    inOrder => IntervalsOrdered

\* Timestamps given in order, a zero-duration row and a row closed later than
\* it was created.
WitnessIntervalsOrderedInOrder ==
    /\ inOrder
    /\ \E r \in DOMAIN history : ~r.is_current /\ r.valid_from = r.valid_to
    /\ \E r \in DOMAIN history : ~r.is_current /\ r.valid_from < r.valid_to

(* -------------------------------- C5 ----------------------------------- *)

ClosedIffDeletedOrChanged ==
    \A s \in Snapshots, ts \in Timestamps :
        Height(history) > 0 =>
            LET out == ApplyScd2(s, history, ts)
            IN  /\ \A r \in DOMAIN history :
                     r.is_current =>
                        LET c == ClosedAt(r, ts)
                        IN  IF IsDeletedKey(s, history, r.id) \/ IsChangedKey(s, history, r.id)
                            THEN /\ CopiesIn(r, out) = 0
                                 /\ CopiesIn(c, out) = CopiesIn(c, history) + CopiesIn(r, history)
                            ELSE /\ CopiesIn(r, out) = CopiesIn(r, history)
                                 /\ CopiesIn(c, out) = CopiesIn(c, history)
                /\ \A k \in Keys : IsDeletedKey(s, history, k) => CurrentCount(out, k) = 0
                /\ (\A k \in SnapKeys(s) : ~IsNewKey(s, history, k) /\ ~IsChangedKey(s, history, k))
                      => Height(out) = Height(history)

\* One key still current from an earlier merge, the other closed by a later
\* merge that did not replace it: a pure deletion.
WitnessClosedIffDeletedOrChanged ==
    \E r \in DOMAIN history, d \in DOMAIN history :
        /\ r.is_current /\ ~d.is_current /\ d.id # r.id
        /\ d.valid_from = r.valid_from /\ d.valid_to > d.valid_from
        /\ Height(history) = 2

(* -------------------------------- C7 ----------------------------------- *)

\* C7: in a steady-state merge exactly one new row (valid_from =
\* ingestion_ts, valid_to = null, is_current = true, the snapshot's values) is
\* inserted for each key of the deduplicated snapshot that is new or changed,
\* none for unchanged or deleted keys, so the output height is the input
\* height plus the number of new keys plus the number of changed keys.
OneInsertPerNewOrChangedKey ==
    \A s \in Snapshots, ts \in Timestamps :
        Height(history) > 0 =>
            LET out == ApplyScd2(s, history, ts)
                ins == {k \in SnapKeys(s) : IsNewKey(s, history, k) \/ IsChangedKey(s, history, k)}
            IN  /\ Height(out) = Height(history) + Cardinality(ins)
                /\ \A k \in ins :
                     /\ CopiesIn(FreshVersion(FirstRow(s, k), ts), out) = 1
                     /\ CurrentCount(out, k) = 1
                /\ \A r \in DOMAIN out :
                     (r.is_current /\ r.id \notin ins) => CopiesIn(r, out) = CopiesIn(r, history)

\* A changed key: its version closed by a later merge, followed by the
\* successor that merge inserted.
WitnessOneInsertPerNewOrChangedKey ==
    \E r \in DOMAIN history, n \in DOMAIN history :
        /\ ~r.is_current /\ n.is_current /\ n.id = r.id
        /\ n.valid_from = r.valid_to /\ n.row_hash # r.row_hash
        /\ r.valid_from < r.valid_to

(* -------------------------------- C8 ----------------------------------- *)

\* C8: resurrection.  If the history holds rows of a key, all of them closed,
\* and the key is in the snapshot, the merge adds exactly one row for the key:
\* a current row with valid_from = ingestion_ts and valid_to = null, also when
\* its row_hash equals a closed row's; every closed row of the key is in the
\* output as it was.
ResurrectionAddsOneRow ==
    \A s \in Snapshots, ts \in Timestamps :
        \A k \in SnapKeys(s) :
            (KeyCount(history, k) > 0 /\ CurrentCount(history, k) = 0) =>
                LET out == ApplyScd2(s, history, ts)
                IN  /\ KeyCount(out, k) = KeyCount(history, k) + 1
                    /\ CurrentCount(out, k) = 1
                    /\ CopiesIn(FreshVersion(FirstRow(s, k), ts), out) = 1
                    /\ \A r \in DOMAIN history :
                         r.id = k => CopiesIn(r, out) = CopiesIn(r, history)

\* A key whose only earlier version is closed and whose current version
\* carries the same row_hash: the key came back with its old content.
WitnessResurrectionAddsOneRow ==
    \E r \in DOMAIN history, n \in DOMAIN history :
        /\ ~r.is_current /\ n.is_current /\ n.id = r.id
        /\ n.row_hash = r.row_hash
        /\ n.valid_from > r.valid_to
        /\ KeyCount(history, r.id) = 2

(* -------------------------------- C9 ----------------------------------- *)

\* C9: same-timestamp correction.  If a key's current row was created at ts
\* and a merge at the same ts brings other hashed data for the key, the
\* earlier row ends with valid_to = valid_from = ts and is_current = false,
\* the new row is current with valid_from = ts and valid_to = null, and the
\* key has exactly one current row.
SameTimestampCorrection ==
    \A s \in Snapshots, ts \in Timestamps :
        \A r \in DOMAIN history :
            (/\ r.is_current /\ r.valid_from = ts
             /\ r.id \in SnapKeys(s) /\ HashOf(FirstRow(s, r.id)) # r.row_hash) =>
                LET out  == ApplyScd2(s, history, ts)
                    zero == [r EXCEPT !.valid_to = r.valid_from, !.is_current = FALSE]
                IN  /\ CopiesIn(r, out) = 0
                    /\ CopiesIn(zero, out) = CopiesIn(zero, history) + 1
                    /\ CopiesIn(FreshVersion(FirstRow(s, r.id), ts), out) = 1
                    /\ CurrentCount(out, r.id) = 1

\* A zero-duration version and its successor created at the same timestamp.
WitnessSameTimestampCorrection ==
    \E r \in DOMAIN history, n \in DOMAIN history :
        /\ ~r.is_current /\ r.valid_to = r.valid_from
        /\ n.is_current /\ n.id = r.id /\ n.valid_from = r.valid_from
        /\ n.row_hash # r.row_hash

(* -------------------------------- C10 ---------------------------------- *)

\* C10: when the snapshot holds several rows of one key, the merge uses the
\* first of them and fails in no case: its result is the result for the
\* snapshot without the later duplicates, every snapshot key has exactly one
\* current row in it, and a row it inserts carries the first occurrence's data.
FirstOccurrenceWins ==
    \A s \in Snapshots, ts \in Timestamps :
        LET out == ApplyScd2(s, history, ts)
        IN  /\ out = ApplyScd2(FirstOccurrences(s), history, ts)
            /\ \A k \in SnapKeys(s) : CurrentCount(out, k) = 1
            /\ \A r \in DOMAIN out :
                 (r.id \in SnapKeys(s) /\ r.is_current /\ CopiesIn(r, history) = 0)
                    => r.data = FirstRow(s, r.id).data

\* The history a bootstrap merge returns for a snapshot whose two rows carry
\* the same key and different data.
WitnessFirstOccurrenceWins ==
    \E s \in Snapshots, ts \in Timestamps :
        /\ Len(s) = 2 /\ s[1].id = s[2].id /\ s[1].data # s[2].data
        /\ Height(history) = 1
        /\ history = ApplyScd2(s, EmptyBag, ts)

(* -------------------------------- C11 ---------------------------------- *)

\* C11: bootstrap.  When the history has no rows, the merge returns exactly
\* one row per distinct key of the snapshot, each with valid_from =
\* ingestion_ts, valid_to = null, is_current = true and the row_hash of the
\* key's first snapshot row, and nothing else; an empty snapshot gives an
\* empty history.
BootstrapOpensEveryKey ==
    \A s \in Snapshots, ts \in Timestamps :
        Height(history) = 0 =>
            LET out == ApplyScd2(s, history, ts)
            IN  /\ Height(out) = Cardinality(SnapKeys(s))
                /\ \A k \in SnapKeys(s) :
                     /\ KeyCount(out, k) = 1
                     /\ CopiesIn(FreshVersion(FirstRow(s, k), ts), out) = 1
                /\ \A r \in DOMAIN out :
                     /\ r.valid_from = ts /\ r.valid_to = NullTs /\ r.is_current
                     /\ r.row_hash # NullStr
                /\ (s = <<>> => out = EmptyBag)

\* The history returned by the first load of a snapshot with two distinct
\* keys: two open rows stamped with the same timestamp.
WitnessBootstrapOpensEveryKey ==
    \E s \in Snapshots, ts \in Timestamps :
        /\ Cardinality(SnapKeys(s)) = 2
        /\ history = ApplyScd2(s, EmptyBag, ts)
        /\ \A r \in DOMAIN history : r.is_current /\ r.valid_from = ts

(* -------------------------------- C12 ---------------------------------- *)

\* The substances of a source text: its non-empty trimmed segments.
Segments(text) == ActiveSubstanceList(StripInvisible(text))

\* C12 as stated: when the source text of a key's row names the substances of
\* the key's current history row in another order (the segments of the two
\* are permutations of each other), cleaning and hashing give the stored
\* row_hash again, so the merge returns the history as it was: no new
\* version, height and valid_to unchanged.
OrderInvariantHash ==
    \A b \in BronzeFrames, ts \in Timestamps :
        \A r \in DOMAIN silver.rows :
            (/\ Len(b.rows) = 1 /\ b.rows[1].id = r.id /\ r.is_current
             /\ b.rows[1].active_substance # NullStr
             /\ r.active_substance_list # NullList
             /\ SeqToBag(Segments(b.rows[1].active_substance))
                    = SeqToBag(r.active_substance_list)) =>
                LET out == ApplyScd2Frames(CleanEparBronze(b), silver, ts, CleanHashColumns)
                IN  /\ ~IsError(out)
                    /\ out.rows = silver.rows

\* Two versions of one key whose substance lists are permutations of each
\* other: the second was inserted for a reordered source text.
WitnessReorderedNewVersion ==
    \E r \in DOMAIN silver.rows, n \in DOMAIN silver.rows :
        /\ ~r.is_current /\ n.is_current /\ n.id = r.id
        /\ r.active_substance_list # NullList /\ n.active_substance_list # NullList
        /\ r.active_substance_list # n.active_substance_list
        /\ SeqToBag(r.active_substance_list) = SeqToBag(n.active_substance_list)
        /\ n.row_hash # r.row_hash

(* -------------------------------- C13 ---------------------------------- *)

\* The snapshot with the one row (K1, value) in the string column data.
DataSnapshot(value) == Frame(DataSchema, <<[id |-> "K1", data |-> value]>>)

\* Whether the frame has data as a string column.
HasStringData(df) == SchemaGet(df.schema, "data") = "String"

\* C13: a null in a hash column is hashed as the empty string.  A row with a
\* null and a row with "" in the hashed column get the same row_hash, the
\* hash of "" and not of a literal "null"; so when a key's current row holds
\* one of the two and the snapshot brings the other, the merge returns the
\* history as it was (no new version, nothing closed).
NullHashedAsEmpty ==
    /\ RowHash(DataSchema, [id |-> "K1", data |-> NullStr], HashColumns) = Md5("")
    /\ RowHash(DataSchema, [id |-> "K1", data |-> ""], HashColumns) = Md5("")
    /\ \A snapshot \in {DataSnapshot(NullStr), DataSnapshot("")}, ts \in Timestamps :
         \A r \in DOMAIN silver.rows :
            (/\ HasStringData(silver) /\ r.is_current
             /\ r.id = snapshot.rows[1].id
             /\ {r.data, snapshot.rows[1].data} = {NullStr, ""}) =>
                LET out == ApplyScd2Frames(snapshot, silver, ts, HashColumns)
                IN  /\ ~IsError(out)
                    /\ out.rows = silver.rows

\* The latest run brought "" for a key whose row was loaded with a null at the
\* first timestamp: the row is still the only one, current, and holds the null.
WitnessNullHashedAsEmpty ==
    /\ bronze = DataSnapshot("")
    /\ HasStringData(silver)
    /\ Height(silver.rows) = 1
    /\ \E r \in DOMAIN silver.rows :
          r.is_current /\ r.data = NullStr /\ r.valid_from = 1 /\ clock > r.valid_from

(* -------------------------------- C14 ---------------------------------- *)

\* C14: if a column named in hash_columns is absent from the snapshot, the
\* merge fails with a column-not-found error and returns no history, whether
\* the history has rows, is empty with a schema, or is empty without one.
MissingHashColumnFails ==
    \A snapshot \in FrameSnapshots, ts \in Timestamps :
        (\E i \in DOMAIN HashColumns :
            HashColumns[i] \notin ColumnNames(snapshot.schema)) =>
                ApplyScd2Frames(snapshot, silver, ts, HashColumns)
                    = Error("ColumnNotFoundError")

\* A snapshot without the hashed column was merged and a history came back:
\* its row carries the hash of the empty text substituted for the column.
WitnessMissingHashColumnMerged ==
    /\ \E i \in DOMAIN HashColumns :
          HashColumns[i] \notin ColumnNames(bronze.schema)
    /\ Len(bronze.rows) > 0
    /\ \E r \in DOMAIN silver.rows :
          /\ r.is_current
          /\ r.id = bronze.rows[1].id
          /\ r.row_hash = Md5("")
          /\ r.valid_from = clock

(* -------------------------------- C15 ---------------------------------- *)

\* The columns the snapshot and the history both have, with different dtypes.
DriftedColumns(snapshot, hist) ==
    {c \in ColumnNames(snapshot.schema) \cap ColumnNames(hist.schema) :
        SchemaGet(snapshot.schema, c) # SchemaGet(hist.schema, c)}

\* C15: if a snapshot column's dtype differs from the dtype of the same column
\* of the history, the merge raises an error instead of returning a history,
\* both when the history has rows and when it is empty with a schema.
TypeDriftFails ==
    \A snapshot \in FrameSnapshots, ts \in Timestamps :
        (Len(silver.schema) > 0 /\ DriftedColumns(snapshot, silver) # {}) =>
            IsError(ApplyScd2Frames(snapshot, silver, ts, HashColumns))

\* An integer snapshot was merged into a history whose data column is a
\* string column: the history now holds the number as text.
WitnessCoercedValueStored ==
    /\ bronze.schema = IntDataSchema
    /\ Len(bronze.rows) > 0
    /\ HasStringData(silver)
    /\ \E r \in DOMAIN silver.rows :
          /\ r.is_current
          /\ r.valid_from = clock
          /\ r.data = ToString(bronze.rows[1].data)

(* -------------------------------- C16 ---------------------------------- *)

\* The columns of a declared history schema that a snapshot has to bring.
SourceColumns(hist_schema) ==
    ColumnNames(hist_schema) \ ColumnNames(ScdColumns)

\* C16: when the input history declares columns, a merge that returns has
\* exactly the history's columns, in the history's order and with its dtypes,
\* on every row, with or without rows in the history; and a snapshot that
\* brings the history's columns with the history's dtypes plus further columns
\* is merged without error.
OutputKeepsHistorySchema ==
    \A snapshot \in FrameSnapshots, ts \in Timestamps :
        Len(silver.schema) > 0 =>
            LET out == ApplyScd2Frames(snapshot, silver, ts, HashColumns)
            IN  /\ ~IsError(out) =>
                    /\ out.schema = silver.schema
                    /\ \A r \in DOMAIN out.rows :
                          DOMAIN r = ColumnNames(silver.schema)
                /\ (/\ SourceColumns(silver.schema) \subseteq ColumnNames(snapshot.schema)
                    /\ DriftedColumns(snapshot, silver) = {}) => ~IsError(out)

\* A snapshot with the column note was merged into a non-empty history that
\* has no such column: the new version is there, without the column.
WitnessExtraColumnDropped ==
    /\ bronze.schema = NoteSchema
    /\ silver.schema = DataSchema \o ScdColumns
    /\ Height(silver.rows) = 2
    /\ \E r \in DOMAIN silver.rows :
          /\ r.is_current
          /\ r.valid_from = clock
          /\ r.data = bronze.rows[1].data
          /\ "note" \notin DOMAIN r

(* -------------------------------- C18 ---------------------------------- *)

\* Whether the frame has the column note, which is not in hash_columns.
HasNote(df) == "note" \in ColumnNames(df.schema)

\* C18: for a key that has a current row, a snapshot row with the same value
\* in the hashed column creates no new version, whatever it holds in a column
\* that is not hashed: the merge returns the history as it was.
UnhashedChangeIgnored ==
    \A snapshot \in FrameSnapshots, ts \in Timestamps :
        \A r \in DOMAIN silver.rows :
            (/\ Len(snapshot.rows) = 1
             /\ HasStringData(snapshot) /\ HasStringData(silver)
             /\ r.is_current
             /\ r.id = snapshot.rows[1].id
             /\ r.data = snapshot.rows[1].data) =>
                LET out == ApplyScd2Frames(snapshot, silver, ts, HashColumns)
                IN  /\ ~IsError(out)
                    /\ out.rows = silver.rows

\* The latest run brought another note for a key with the same data: the row
\* loaded at the first timestamp is still the only one and keeps its note.
WitnessUnhashedChangeIgnored ==
    /\ HasNote(bronze) /\ HasNote(silver)
    /\ HasStringData(bronze) /\ HasStringData(silver)
    /\ Height(silver.rows) = 1
    /\ \E r \in DOMAIN silver.rows :
          /\ r.is_current
          /\ r.id = bronze.rows[1].id
          /\ r.data = bronze.rows[1].data
          /\ r.note # bronze.rows[1].note
          /\ r.valid_from < clock

(* -------------------------------- C17 ---------------------------------- *)

\* The cleaned row of a bronze frame of one row.
CleanedRow(b) == CleanEparBronze(b).rows[1]

\* C17: for a key that has a current row, whenever the snapshot's value in the
\* hashed list column differs from the current row's (a null against an empty
\* list aside), the merge closes the current row at the ingestion timestamp
\* and inserts a current row with the snapshot's value: one row more.
ChangedValueDetected ==
    \A b \in BronzeFrames, ts \in Timestamps :
        \A r \in DOMAIN silver.rows :
            (/\ Len(b.rows) = 1 /\ b.rows[1].id = r.id /\ r.is_current
             /\ CleanedRow(b).active_substance_list # r.active_substance_list
             /\ {CleanedRow(b).active_substance_list, r.active_substance_list}
                    # {NullList, <<>>}) =>
                LET out == ApplyScd2Frames(CleanEparBronze(b), silver, ts, CleanHashColumns)
                IN  /\ ~IsError(out)
                    /\ Height(out.rows) = Height(silver.rows) + 1
                    /\ \E n \in DOMAIN out.rows :
                          /\ n.is_current /\ n.id = r.id /\ n.valid_from = ts
                          /\ n.active_substance_list = CleanedRow(b).active_substance_list
                    /\ \E o \in DOMAIN out.rows :
                          /\ ~o.is_current /\ o.id = r.id /\ o.valid_to = ts
                          /\ o.active_substance_list = r.active_substance_list

\* A current row whose list is the one element "A;B" and whose row_hash is
\* also the hash of the two-element list of "A" and "B".
WitnessJoinedListsCollide ==
    \E r \in DOMAIN silver.rows :
        /\ r.is_current
        /\ r.active_substance_list = <<"A;B">>
        /\ r.row_hash = RowHash(CleanHistorySchema,
                                [id |-> r.id, active_substance_list |-> <<"A", "B">>],
                                CleanHashColumns)

(* -------------------------------- C19 ---------------------------------- *)

\* The status a text gets under the rule order refusal, withdrawal or expiry,
\* suspension lifted, suspension, conditional, exceptional, authorised or
\* authorisation, unknown, on the trimmed text without regard to case.
RuleOrderStatus(text) ==
    IF text = NullStr THEN "UNKNOWN"
    ELSE LET col == ToUppercase(StripChars(text))
         IN  IF Contains(col, "REFUSED") THEN "REJECTED"
             ELSE IF Contains(col, "WITHDRAWN") \/ Contains(col, "EXPIRED") THEN "WITHDRAWN"
             ELSE IF Contains(col, "LIFTED") THEN "APPROVED"
             ELSE IF Contains(col, "SUSPENDED") \/ Contains(col, "SUSPENSION") THEN "SUSPENDED"
             ELSE IF Contains(col, "CONDITIONAL") THEN "CONDITIONAL_APPROVAL"
             ELSE IF Contains(col, "EXCEPTIONAL") THEN "EXCEPTIONAL_CIRCUMSTANCES"
             ELSE IF Contains(col, "AUTHORISED") \/ Contains(col, "AUTHORISATION") THEN "APPROVED"
             ELSE "UNKNOWN"

\* Whether the text negates an authorisation.
Negated(text) ==
    LET col == ToUppercase(StripChars(text))
    IN  \E n \in {"NOT AUTHORIS", "NOT MARKETING AUTHORIS", "UNAUTHORIS",
                  "NON-AUTHORIS", "DE-AUTHORIS"} : Contains(col, n)

\* C19: the cleaned row's status_normalized is the value of the first rule,
\* in the order of RuleOrderStatus, whose keyword the status text holds, and
\* UNKNOWN for a text that holds none (texts negating an authorisation are
\* left to C20).
StatusFollowsRuleOrder ==
    Len(silver.schema) > 0 =>
        LET text == bronze.rows[1].authorisation_status
        IN  (text = NullStr \/ ~Negated(text)) =>
                silver.rows[1].status_normalized = RuleOrderStatus(text)

\* The text 'Suspension Lifted' was cleaned and is not APPROVED.
WitnessLiftedNotApproved ==
    /\ Len(silver.schema) > 0
    /\ bronze.rows[1].authorisation_status = "Suspension Lifted"
    /\ silver.rows[1].status_normalized = "UNKNOWN"

(* -------------------------------- C20 ---------------------------------- *)

\* Whether the text holds the keyword of a branch that precedes the
\* authorised branch.
HigherRuleMatches(text) ==
    RuleOrderStatus(text) \notin {"APPROVED", "UNKNOWN"} \/ Contains(ToUppercase(text), "LIFTED")

\* C20: a status text that negates an authorisation and holds no keyword of a
\* preceding branch is never cleaned to APPROVED, and 'Not Authorised' is
\* cleaned to UNKNOWN.
NegatedNeverApproved ==
    Len(silver.schema) > 0 =>
        LET text == bronze.rows[1].authorisation_status
        IN  /\ (text # NullStr /\ Negated(text) /\ ~HigherRuleMatches(text)) =>
                    silver.rows[1].status_normalized # "APPROVED"
            /\ text = "Not Authorised" =>
                    silver.rows[1].status_normalized = "UNKNOWN"

\* The text 'Unauthorised' was cleaned to APPROVED.
WitnessUnauthorisedApproved ==
    /\ Len(silver.schema) > 0
    /\ bronze.rows[1].authorisation_status = "Unauthorised"
    /\ silver.rows[1].status_normalized = "APPROVED"

(* -------------------------------- C21 ---------------------------------- *)

\* The positions of the separators "," and ";" in a text, and the k-th
\* smallest of a set of positions.
SeparatorPositions(text) == {i \in 1..Len(text) : CharAt(text, i) \in {",", ";"}}
KthPosition(positions, k) ==
    CHOOSE p \in positions : Cardinality({q \in positions : q < p}) = k - 1

\* The tokens of a text: what stands before the first separator, between two
\* neighbouring separators, and after the last one, from left to right.
TokensOf(text) ==
    LET seps  == SeparatorPositions(text)
        n     == Cardinality(seps)
        lo(k) == IF k = 1 THEN 1 ELSE KthPosition(seps, k - 1) + 1
        hi(k) == IF k = n + 1 THEN Len(text) ELSE KthPosition(seps, k) - 1
    IN  [k \in 1..(n + 1) |-> SubSeq(text, lo(k), hi(k))]

\* A token without zero width spaces, trimmed and in upper case.
NormalizedToken(token) ==
    ToUppercase(StripChars(ReplaceAll(token, Zwsp, "")))

\* The normalized tokens of a text that are 7 characters long, a letter, two
\* digits, two letters and two digits, in the order of the text.
ConformingTokens(text) ==
    LET tokens == TokensOf(text)
        keep   == {k \in DOMAIN tokens :
                      LET t == NormalizedToken(tokens[k])
                      IN  /\ Len(t) = 7
                          /\ \A i \in {1, 4, 5} : Contains(Uppercase, CharAt(t, i))
                          /\ \A i \in {2, 3, 6, 7} : Contains("0123456789", CharAt(t, i))}
    IN  [j \in 1..Cardinality(keep) |-> NormalizedToken(tokens[KthPosition(keep, j)])]

Enriched == ~IsError(silver) /\ Len(silver.schema) > 0

\* The similarity of a holder name and the name of row i of the registry.
Similarity(holder, i) == CalcDist(holder, bronze.spor.rows[i].name)

\* C22: an enriched row has a non-null spor_mah_id if and only if some
\* registry name is more than 0.90 similar to the row's holder name; a best
\* similarity of 0.90 or less gives null, and with an empty registry the
\* enrichment returns with null on every row.
SporIdIffAboveThreshold ==
    /\ Enriched =>
          \A r \in DOMAIN silver.rows :
              (r.spor_mah_id # NullStr) <=>
                  \E i \in 1..Len(bronze.spor.rows) :
                      ScoreGreater(Similarity(r.marketing_authorisation_holder, i), Threshold)
    /\ Len(bronze.spor.rows) = 0 =>
          /\ ~IsError(EnrichEpar(bronze.epar, bronze.spor))
          /\ \A r \in DOMAIN EnrichEpar(bronze.epar, bronze.spor).rows :
                r.spor_mah_id = NullStr

\* A holder was resolved against a registry whose best name is exactly 0.90
\* similar to it: its spor_mah_id is null.
WitnessThresholdNotMatched ==
    /\ Enriched
    /\ Len(bronze.spor.rows) > 0
    /\ \E r \in DOMAIN silver.rows :
          /\ r.spor_mah_id = NullStr
          /\ \E i \in 1..Len(bronze.spor.rows) :
                ScoreEqual(Similarity(r.marketing_authorisation_holder, i), Threshold)
          /\ \A i \in 1..Len(bronze.spor.rows) :
                ~ScoreGreater(Similarity(r.marketing_authorisation_holder, i), Threshold)

(* -------------------------------- C23 ---------------------------------- *)

\* The registry with its rows in reverse order.
Reversed(spor_df) ==
    Frame(spor_df.schema,
          [i \in 1..Len(spor_df.rows) |-> spor_df.rows[Len(spor_df.rows) + 1 - i]])

\* C23: the spor_mah_id of an enriched row is the org_id of a registry row
\* that no other row beats: no row is more similar to the holder name, and
\* no row equally similar has a smaller org_id in string order; and the
\* enrichment of the same frame against the registry in reverse order gives
\* the same rows.
BestCandidateChosen ==
    Enriched =>
        /\ \A r \in DOMAIN silver.rows :
              r.spor_mah_id # NullStr =>
                  \E i \in 1..Len(bronze.spor.rows) :
                      /\ bronze.spor.rows[i].org_id = r.spor_mah_id
                      /\ \A j \in 1..Len(bronze.spor.rows) :
                            LET mine   == Similarity(r.marketing_authorisation_holder, i)
                                theirs == Similarity(r.marketing_authorisation_holder, j)
                            IN  /\ ~ScoreGreater(theirs, mine)
                                /\ ScoreEqual(theirs, mine) =>
                                      ~StrLess(bronze.spor.rows[j].org_id, r.spor_mah_id)
        /\ EnrichEpar(bronze.epar, Reversed(bronze.spor)).rows = silver.rows

\* A holder was resolved against a registry that lists one name twice, the
\* greater org_id first: the row has the smaller one.
WitnessTieBrokenById ==
    /\ Enriched
    /\ Len(bronze.spor.rows) = 2
    /\ bronze.spor.rows[1].name = bronze.spor.rows[2].name
    /\ StrLess(bronze.spor.rows[2].org_id, bronze.spor.rows[1].org_id)
    /\ \E r \in DOMAIN silver.rows : r.spor_mah_id = bronze.spor.rows[2].org_id

(* -------------------------------- C24 ---------------------------------- *)

\* Whether a path holds a file with some but not all chunks of a body.
Partial(p, dest_path) ==
    /\ files[p].kind = "file"
    /\ \E n \in 1..(Len(Body(dest_path)) - 1) :
          files[p].data = SubSeq(Body(dest_path), 1, n)

\* C24: download_file is atomic on dest_path.  A download that returned left
\* the complete body at dest_path; a download that raised during the request
\* or while the chunks were streamed left no temp file; and dest_path never
\* holds a part of the body.
DownloadAtomic ==
    /\ \A dest_path \in {EparPath, SporPath} : ~Partial(dest_path, dest_path)
    /\ (pc.step # "idle" /\ pc.target = SporPath) =>
          files[EparPath] = RegularFile(Body(EparPath))
    /\ pc.step = "done" => files[SporPath] = RegularFile(Body(SporPath))
    /\ (pc.step = "raised" /\ pc.at \in {"get", "stream"}) =>
          files[TempPath(pc.target)].kind = "absent"

\* A download raised while the chunks were streamed and its temp file is
\* still there, with a part of the body.
WitnessTempFileLeft ==
    /\ pc.step = "raised" /\ pc.at = "stream"
    /\ Partial(TempPath(pc.target), pc.target)

(* -------------------------------- C25 ---------------------------------- *)

\* Whether organisations.zip is a regular file of more than 0 bytes.
CacheUsable ==
    files[SporPath].kind = "file" /\ Len(files[SporPath].data) > 0

\* C25: the SPOR download starts after the EPAR file is in place, and
\* fetch_sources does not end in an exception of the SPOR download while
\* organisations.zip is a regular file of more than 0 bytes.
SporFailureFallsBack ==
    /\ (pc.step # "idle" /\ pc.target = SporPath) =>
          files[EparPath].kind = "file"
    /\ (pc.step = "raised" /\ pc.target = SporPath) => ~CacheUsable

\* fetch_sources ended in the exception of the SPOR request although the
\* cached organisations.zip of an earlier run is in place.
WitnessRaisedDespiteCache ==
    /\ pc.step = "raised" /\ pc.target = SporPath
    /\ pc.error = "RequestException"
    /\ files[SporPath] = RegularFile(Cached)
    /\ files[EparPath] = RegularFile(Body(EparPath))

(* -------------------------------- C26 ---------------------------------- *)

\* C26: in every history the merges produce from the empty history, a row is
\* current if and only if its valid_to is null.
CurrentIffOpenEnded ==
    \A r \in DOMAIN history : r.is_current <=> (r.valid_to = NullTs)

\* A history with a current row and a closed row of one key.
WitnessOpenAndEndedRows ==
    \E r \in DOMAIN history, n \in DOMAIN history :
        /\ r.id = n.id
        /\ ~r.is_current /\ r.valid_to # NullTs
        /\ n.is_current /\ n.valid_to = NullTs

(* -------------------------------- C28 ---------------------------------- *)

\* C28: after a merge of any snapshot into a history the merges have
\* produced, the keys that have a current row are the keys of the snapshot,
\* and each current row carries the row_hash of the snapshot's first row of
\* its key.
CurrentMirrorsSnapshot ==
    \A s \in Snapshots, ts \in Timestamps :
        LET out == ApplyScd2(s, history, ts)
        IN  /\ KeySet(CurrentPart(out)) = SnapKeys(s)
            /\ \A r \in DOMAIN CurrentPart(out) :
                  r.row_hash = HashOf(FirstRow(s, r.id))

\* A key with a closed version and a current version of different hashes:
\* the current one mirrors a later snapshot than the closed one.
WitnessCurrentMirrorsLater ==
    \E r \in DOMAIN history, n \in DOMAIN history :
        /\ r.id = n.id
        /\ ~r.is_current /\ n.is_current
        /\ r.row_hash # n.row_hash
        /\ r.valid_to = n.valid_from

(* -------------------------------- C29 ---------------------------------- *)

\* The keys of the snapshot rows a steady-state merge classifies as new.
NewKeys(s, h) ==
    KeySet(NewRecords(Joined(SnapshotHashed(s), HistRenamed(CurrentHistory(h)))))

\* C29: in a steady-state merge a key is classified as new only when the
\* history has no current row of it, whatever row_hash its rows store, so a
\* key with one current row has at most one after the merge.
NewOnlyWithoutCurrentRow ==
    \A s \in Snapshots, ts \in Timestamps :
        Height(history) > 0 =>
            \A k \in Keys :
                /\ k \in NewKeys(s, history) => CurrentCount(history, k) = 0
                /\ CurrentCount(history, k) <= 1 =>
                      CurrentCount(ApplyScd2(s, history, ts), k) <= 1

\* A key with two current rows, one of them with a null row_hash.
WitnessTwoCurrentRows ==
    \E r \in DOMAIN history, n \in DOMAIN history :
        /\ r.id = n.id /\ r # n
        /\ r.is_current /\ n.is_current
        /\ r.row_hash = NullStr /\ n.row_hash # NullStr

(* -------------------------------- C30 ---------------------------------- *)

\* The number of facts in fact_regulatory_history that carry a history_id.
FactsWithId(df, id) ==
    Height(Filter(FactRegulatoryHistory(df),
                  {f \in DOMAIN FactRegulatoryHistory(df) : f.history_id = id}))

\* C30: in fact_regulatory_history built from the history, no two facts share
\* a history_id.
HistoryIdDistinct ==
    \A r \in DOMAIN history : FactsWithId(history, HistoryId(r)) = 1

\* A same-timestamp correction: a closed row and the current row of one key
\* start at the same valid_from.
WitnessSameValidFrom ==
    \E r \in DOMAIN history, n \in DOMAIN history :
        /\ r.id = n.id /\ r.valid_from = n.valid_from
        /\ ~r.is_current /\ n.is_current
        /\ r.data # n.data
        /\ Height(FactRegulatoryHistory(history)) = Height(history)

(* -------------------------------- C27 ---------------------------------- *)

\* C27: every run of run_transformations completes without error, and every
\* row that is closed in the history file before a run is in the history file
\* after it with the same values.
RepeatedRunsKeepHistory ==
    [][/\ pc'.step # "raised"
       /\ \A r \in DOMAIN silver.rows :
              ~r.is_current => r \in DOMAIN silver'.rows]_vars

\* A second run with a registry that is not empty, on the history the first
\* run wrote, raised in enrich_epar and left the history of the first run.
WitnessSecondRunRaised ==
    /\ clock = 2
    /\ pc = RunRaised("DuplicateError", "enrich_epar")
    /\ Len(bronze.spor.rows) > 0
    /\ "spor_mah_id" \in ColumnNames(silver.schema)
    /\ \A r \in DOMAIN silver.rows : r.valid_from = 1

====
